---- MODULE Spec2Model ----
(***************************************************************************)
(* Model of the v2 event pipeline of atomprice:                            *)
(*   - the ingestion (scripts/v2/ingest-events-v2.mjs): provider fan-out,  *)
(*     the normalizer, quorum reconciliation, the append-only monthly      *)
(*     ledger, the state document and the source-status document;          *)
(*   - the health reconciler (scripts/v2/reconcile-health-v2.mjs);         *)
(*   - the repair (scripts/v2/backfill-repair-v2.mjs);                     *)
(*   - the rebuild of the derived views                                    *)
(*     (scripts/v2/rebuild-derived-v2.mjs);                                *)
(*   - the network calls of the fetcher and of the rebuild;                *)
(*   - the derived views as functions of a ledger that earlier ingestion   *)
(*     processes left, and an ingestion process that overlaps another.     *)
(*                                                                         *)
(* Time is measured in ticks; two ticks make one UTC calendar month, so    *)
(* ticks 1,2 fall in month 1, ticks 3,4 in month 2, and so on.  In the     *)
(* ingestion a raw record is reduced to the fields the ledger logic reads: *)
(* its identity (the sha1 of the identity fields, here an integer id), its *)
(* type, amount and height, and its timestamp.                             *)
(***************************************************************************)
EXTENDS Integers, Sequences, FiniteSets, TLC

\* ---------------------------------------------------------------- bounds
NumIds == 3          \* distinct event identities the providers can report
MaxTs == 2           \* largest event timestamp (tick) a provider can report
MaxNow == 3          \* last wall-clock tick at which a run can start
MaxItemsEach == 1    \* raw records per provider when every provider is reachable
MaxItemsSole == 2    \* raw records of the provider when it is the only one reachable

\* ------------------------------------------------------ program constants
NoTs == 0            \* timestamp: null
RPC_QUORUM_MIN == 2
DefaultOverlapHours == 6
FEED_KEEP == 1000

\* the endpoints the processes are configured with when the environment
\* names none
DefaultProviders ==
  << [host |-> "cosmos-rpc.publicnode.com", path |-> ""],
     [host |-> "rpc.cosmos.directory", path |-> "/cosmoshub"],
     [host |-> "rpc.silknodes.io", path |-> "/cosmos"] >>

\* endpoints named by the environment, two of them on one host
SharedHostProviders ==
  << [host |-> "cosmos-rpc.publicnode.com", path |-> ""],
     [host |-> "rpc.cosmos.directory", path |-> "/cosmoshub"],
     [host |-> "rpc.cosmos.directory", path |-> "/cosmoshub-archive"] >>

Ids == 1..NumIds
Timestamps == {NoTs} \cup (1..MaxTs)

\* type, amount and height are identity fields (the id is their hash): each
\* id stands for one type, one amount and one height
TypeOfId(id) == IF id % 2 = 1 THEN "delegate" ELSE "undelegate"
AmountOfId(id) == id * 25000
HeightOfId(id) == id

\* a raw record as the fetcher writes it for the event with this identity
WellFormed(id, timestamp) ==
  [id |-> id,
   type |-> TypeOfId(id),
   timestamp |-> timestamp,
   height |-> HeightOfId(id),
   amount_atom |-> AmountOfId(id)]

\* raw records as found in a provider's delegation-events-raw.json
RawItems == { WellFormed(id, timestamp) : id \in Ids, timestamp \in Timestamps }

RawItemLists ==
  UNION { [1..n -> RawItems] : n \in 0..MaxItemsSole }

\* raw records of one month, all stamped with the first tick
QuorumItemLists ==
  UNION { [1..n -> { WellFormed(id, 1) : id \in Ids }] : n \in 0..MaxItemsEach }

VARIABLES
  RPC_PROVIDERS,       \* the endpoints the processes are configured with
  pc,                  \* position of the ingestion process
  nowIso,              \* wall clock captured when the process starts
  OVERLAP_HOURS,       \* the overlap window the processes are configured with
  ledger,              \* partition key -> rows of data/ledger/events-<key>.jsonl
  stateFile,           \* data/ledger/state.json
  sourceStatusFile,    \* data/source-status.json
  exitCode,            \* exit status of the last process (-1 while running)
  fetchResult,         \* what each provider's fetcher did in this run
  tasks,               \* the promises handed to Promise.allSettled
  running,             \* the provider whose fetcher child occupies the thread (0: none)
  providerRuns,
  dynamicQuorum,
  evidence,
  canonical,
  quorumEvents,
  droppedByQuorum,
  skippedExisting,
  toAppendByPartition,
  appendIdx,           \* next entry of toAppendByPartition to append
  replay               \* provider outcomes of an earlier run that later runs repeat

VARIABLES
  rawRecords,          \* two raw records handed to the normalizer
  edits,               \* how many fields of the two records were varied
  normalized,          \* what normalizeEvent returned for the two records
  healthFile,          \* data/ingestion-health.json
  repairPc,            \* position of the repair process
  repairExit,          \* exit status of the repair process (-1 while running)
  repairRuns,          \* repair processes started so far
  stagesRun,           \* every child process the repair processes spawned
  rebuildPc,           \* position of the rebuild process
  rebuildExit,         \* exit status of the rebuild process (-1 while running)
  rebuildRuns,         \* rebuild processes started so far
  rebuildEnv,          \* RUN_PENDING and RUN_UNBONDING of the rebuild process
  rebuildNow,          \* wall clock of the rebuild process
  rebuildEvents,       \* the events the rebuild process loaded
  scriptsRun,          \* the scripts the rebuild process has run
  derived,             \* the files the rebuild process writes
  netStage,            \* the stage that is calling the network
  callsLeft,           \* network calls the stage has still to make
  call,                \* the network call in flight
  waited,              \* clock ticks the call in flight has been waiting
  settled,             \* how the calls of the stage ended
  overlapPc,           \* position of an ingestion process that overlaps
  overlapToAppend,     \* toAppendByPartition of the overlapping process
  overlapIdx           \* its position in the append loop

ProviderIdx == 1..Len(RPC_PROVIDERS)

normalizer == << rawRecords, edits, normalized >>

repair == << repairPc, repairExit, repairRuns, stagesRun >>

rebuild == << rebuildPc, rebuildExit, rebuildRuns, rebuildEnv, rebuildNow,
              rebuildEvents, scriptsRun, derived >>

network == << netStage, callsLeft, call, waited, settled >>

overlapping == << overlapPc, overlapToAppend, overlapIdx >>

\* the state outside the ingestion process
others == << normalizer, healthFile, repair, rebuild, network, overlapping >>

vars == << RPC_PROVIDERS, pc, nowIso, OVERLAP_HOURS, ledger, stateFile,
           sourceStatusFile, exitCode,
           fetchResult, tasks, running,
           providerRuns, dynamicQuorum, evidence, canonical, quorumEvents,
           droppedByQuorum, skippedExisting, toAppendByPartition, appendIdx,
           replay, others >>

\* the state of the ingestion process and of the files it writes
ingestion == << RPC_PROVIDERS, pc, nowIso, OVERLAP_HOURS, ledger, stateFile,
                sourceStatusFile, exitCode,
                fetchResult, tasks, running,
                providerRuns, dynamicQuorum, evidence, canonical,
                quorumEvents, droppedByQuorum, skippedExisting,
                toAppendByPartition, appendIdx, replay, overlapping >>

locals == << providerRuns, dynamicQuorum, evidence, canonical, quorumEvents,
             droppedByQuorum, skippedExisting, toAppendByPartition >>

\* ------------------------------------------------------------- helpers
Month(t) == (t + 1) \div 2

Partitions == 1..Month(IF MaxTs > MaxNow THEN MaxTs ELSE MaxNow)

getPartitionKey(iso, now) == Month(IF iso # NoTs THEN iso ELSE now)

providerName(url) == url.host

normalizeType(v) ==
  IF v \in {"MsgUndelegate", "undelegate", "begin_unbonding"} THEN "undelegate"
  ELSE IF v \in {"delegate", "MsgDelegate"} THEN "delegate"
  ELSE "null"

Null == [null |-> TRUE]

\* what a provider can return in place of a number or of a time
NaN == -999          \* Number(...) of a string that is not a number
BadTs == -1          \* a timestamp string that Date does not read

isFinite(x) == x # NaN

\* new Date(timestampRaw).toISOString() throws a RangeError on a string Date
\* does not read; the type has been checked before, the amount has not
normalizeThrows(ev) ==
  /\ normalizeType(ev.type) # "null"
  /\ ev.timestamp = BadTs

normalizeEvent_keepNonPositive(ev, source) ==
  IF normalizeType(ev.type) = "null" THEN Null
  ELSE IF ev.timestamp = NoTs /\ ev.height = 0 THEN Null
  ELSE [id |-> ev.id,
        source |-> source,
        type |-> normalizeType(ev.type),
        timestamp |-> ev.timestamp,
        height |-> ev.height,
        amount_atom |-> ev.amount_atom]

\* normalizeEvent on a record for which it does not throw
normalizeEvent(ev, source) ==
  IF normalizeType(ev.type) = "null" THEN Null
  ELSE IF ~isFinite(ev.amount_atom) THEN Null
  ELSE IF ev.amount_atom <= 0 THEN Null
  ELSE IF ev.timestamp = NoTs /\ ev.height = 0 THEN Null
  ELSE [id |-> ev.id,
        source |-> source,
        type |-> normalizeType(ev.type),
        timestamp |-> ev.timestamp,
        height |-> ev.height,
        amount_atom |-> ev.amount_atom]

\* (raw.items || []).map((r) => normalizeEvent(r, provider)).filter(Boolean)
NormalizedEvents(items, source) ==
  SelectSeq([k \in 1..Len(items) |-> normalizeEvent(items[k], source)],
            LAMBDA e : e # Null)

IsPrefix(s, t) == Len(s) <= Len(t) /\ SubSeq(t, 1, Len(s)) = s

\* ------------------------------------------------ quorum reconciliation
SettledRun_okOnReject(idx) ==
  IF tasks[idx].status = "fulfilled"
  THEN tasks[idx].value
  ELSE [provider |-> providerName(RPC_PROVIDERS[idx]),
        ok |-> TRUE,
        error |-> "null",
        events |-> <<>>]

SettledRun_firstFulfilled(idx) ==
  IF tasks[idx].status = "fulfilled"
  THEN [tasks[idx].value EXCEPT
          !.events = IF tasks[1].status = "fulfilled"
                     THEN tasks[1].value.events ELSE @]
  ELSE [provider |-> providerName(RPC_PROVIDERS[idx]),
        ok |-> FALSE,
        error |-> tasks[idx].reason,
        events |-> <<>>]

\* results.map(...) after Promise.allSettled: a rejected task becomes a
\* failed provider record
SettledRun(idx) ==
  IF tasks[idx].status = "fulfilled"
  THEN tasks[idx].value
  ELSE [provider |-> providerName(RPC_PROVIDERS[idx]),
        ok |-> FALSE,
        error |-> tasks[idx].reason,
        events |-> <<>>]

okRunsOf(runs) == SelectSeq(runs, LAMBDA r : r.ok)

DynamicQuorumOf(okCount) ==
  IF okCount >= RPC_QUORUM_MIN THEN RPC_QUORUM_MIN
  ELSE IF okCount > 1 THEN okCount ELSE 1

\* the (provider, event) pairs in the order the two nested loops visit them
RECURSIVE Reports(_)
Reports(runs) ==
  IF runs = <<>> THEN <<>>
  ELSE [k \in 1..Len(Head(runs).events) |->
          [provider |-> Head(runs).provider, e |-> Head(runs).events[k]]]
       \o Reports(Tail(runs))

\* canonical: Map id -> first event seen, kept in insertion order
RECURSIVE BuildCanonical(_, _)
BuildCanonical(reps, acc) ==
  IF reps = <<>> THEN acc
  ELSE LET e == Head(reps).e IN
       BuildCanonical(Tail(reps),
         IF \E k \in 1..Len(acc) : acc[k].id = e.id THEN acc
         ELSE Append(acc, e))

\* evidence: Map id -> Set of provider names (an absent key is the empty set)
RECURSIVE BuildEvidence(_, _)
BuildEvidence(reps, acc) ==
  IF reps = <<>> THEN acc
  ELSE LET r == Head(reps) IN
       BuildEvidence(Tail(reps),
         [acc EXCEPT ![r.e.id] = acc[r.e.id] \cup {r.provider}])

NoEvidence == [id \in Ids |-> {}]

QuorumEventsOf_strict(canon, evid, q) ==
  SelectSeq(canon, LAMBDA e : Cardinality(evid[e.id]) > q)

QuorumEventsOf(canon, evid, q) ==
  SelectSeq(canon, LAMBDA e : Cardinality(evid[e.id]) >= q)

DroppedByQuorumOf(canon, evid, q) ==
  Len(SelectSeq(canon, LAMBDA e : ~(Cardinality(evid[e.id]) >= q)))

\* ------------------------------------------------------- ledger writer
\* [...new Set(quorumEvents.map(getPartitionKey))]
PartitionsOf(events, now) ==
  { getPartitionKey(events[k].timestamp, now) : k \in 1..Len(events) }

loadExistingIdsForPartitions_none(partitions, files) == {}

loadExistingIdsForPartitions_everyId(partitions, files) == Ids

loadExistingIdsForPartitions(partitions, files) ==
  UNION { { files[p][k].id : k \in 1..Len(files[p]) } : p \in partitions }

\* toAppendByPartition: Map partition -> rows, kept in insertion order
RECURSIVE GroupByPartition(_, _, _, _)
GroupByPartition(events, existingIds, now, acc) ==
  IF events = <<>> THEN acc
  ELSE LET e == Head(events)
           p == getPartitionKey(e.timestamp, now)
       IN  GroupByPartition(Tail(events), existingIds, now,
             IF e.id \in existingIds THEN acc
             ELSE IF \E k \in 1..Len(acc) : acc[k].p = p
                  THEN [k \in 1..Len(acc) |->
                          IF acc[k].p = p
                          THEN [p |-> p, rows |-> Append(acc[k].rows, e)]
                          ELSE acc[k]]
                  ELSE Append(acc, [p |-> p, rows |-> <<e>>]))

SkippedExistingOf_none(events, existingIds) == 0

SkippedExistingOf(events, existingIds) ==
  Len(SelectSeq(events, LAMBDA e : e.id \in existingIds))

\* String(a.timestamp).localeCompare(String(b.timestamp)) < 0: ISO strings
\* compare as their instants, and "null" collates after every digit string
TimestampBefore(a, b) == a # NoTs /\ (b = NoTs \/ a < b)

RECURSIVE InsertByTimestamp(_, _)
InsertByTimestamp(r, s) ==
  IF s = <<>> THEN <<r>>
  ELSE IF TimestampBefore(r.timestamp, Head(s).timestamp) THEN <<r>> \o s
  ELSE <<Head(s)>> \o InsertByTimestamp(r, Tail(s))

SortByTimestamp_unsorted(rows) == rows

\* rows.sort(...): stable
RECURSIVE SortByTimestamp(_)
SortByTimestamp(rows) ==
  IF rows = <<>> THEN <<>>
  ELSE InsertByTimestamp(rows[Len(rows)],
                         SortByTimestamp(SubSeq(rows, 1, Len(rows) - 1)))

AppendFile_overwrite(content, rows) == rows

AppendFile_prepend(content, rows) == rows \o content

AppendFile_replaceLast(content, rows) ==
  SubSeq(content, 1, Len(content) - 1) \o rows

AppendFile_firstRowOnly(content, rows) == content \o SubSeq(rows, 1, 1)

\* fs.appendFile(file, lines)
AppendFile(content, rows) == content \o rows

RECURSIVE SumRows(_)
SumRows(entries) ==
  IF entries = <<>> THEN 0
  ELSE Len(Head(entries).rows) + SumRows(Tail(entries))

AppendedOf(entries) == SumRows(entries)

\* ------------------------------------------------------------ documents
\* A document is regenerated in full by every run and no key of an earlier
\* document survives into the next one (nextState overwrites last_ingest_at,
\* cursors.since and stats), so once a new process starts the document left
\* by an earlier process is kept only as OldDocument.
NoFile == [exists |-> FALSE]

OldDocument == [exists |-> TRUE, fresh |-> FALSE]

Superseded(doc) == IF doc.exists THEN OldDocument ELSE NoFile

ProviderStatsOf(runs) ==
  [name \in { runs[k].provider : k \in 1..Len(runs) } |->
     LET last == CHOOSE k \in 1..Len(runs) :
                   /\ runs[k].provider = name
                   /\ \A j \in (k + 1)..Len(runs) : runs[j].provider # name
     IN  [ok |-> runs[last].ok,
          error |-> runs[last].error,
          events |-> Len(runs[last].events)]]

StatsOf(runs, q, canon, accepted, dropped, skipped, entries) ==
  [providers_total |-> Len(runs),
   providers_ok |-> Len(okRunsOf(runs)),
   quorum_required |-> q,
   candidate_events |-> Len(canon),
   quorum_events |-> Len(accepted),
   dropped_by_quorum |-> dropped,
   skipped_existing |-> skipped,
   appended |-> AppendedOf(entries),
   partitions_touched |-> Len(entries),
   provider_stats |-> ProviderStatsOf(runs)]

SourceStatusOf(runs, q, dropped, skipped, entries, now) ==
  [exists |-> TRUE,
   fresh |-> TRUE,
   generated_at |-> now,
   status |-> IF Len(okRunsOf(runs)) >= q THEN "ok"
              ELSE IF Len(okRunsOf(runs)) > 0 THEN "degraded"
              ELSE "critical",
   quorum |-> [configured_min |-> RPC_QUORUM_MIN,
               active_required |-> q,
               provider_count |-> Len(runs),
               provider_success |-> Len(okRunsOf(runs)),
               dropped_by_quorum |-> dropped],
   providers |-> ProviderStatsOf(runs),
   ledger |-> [appended |-> AppendedOf(entries),
               skipped_existing |-> skipped,
               partitions_touched |-> Len(entries)]]

\* --------------------------------------------------------------- state
PendingTask == [status |-> "pending"]

NotFetched == [kind |-> "pending", items |-> <<>>]

NoReplay == [at |-> 0, outcomes |-> <<>>]

\* the ingestion process at rest, for the endpoints it is configured with
IngestionIdle ==
  /\ pc = "idle"
  /\ ledger = [p \in Partitions |-> <<>>]
  /\ stateFile = NoFile
  /\ sourceStatusFile = NoFile
  /\ exitCode = -1
  /\ fetchResult = [i \in ProviderIdx |-> NotFetched]
  /\ tasks = [i \in ProviderIdx |-> PendingTask]
  /\ running = 0
  /\ providerRuns = <<>>
  /\ dynamicQuorum = 0
  /\ evidence = NoEvidence
  /\ canonical = <<>>
  /\ quorumEvents = <<>>
  /\ droppedByQuorum = 0
  /\ skippedExisting = 0
  /\ toAppendByPartition = <<>>
  /\ appendIdx = 1
  /\ replay = NoReplay
  /\ overlapPc = "idle"
  /\ overlapToAppend = <<>>
  /\ overlapIdx = 1

NormalizerIdle ==
  /\ rawRecords = << >>
  /\ edits = 0
  /\ normalized = << >>

RepairIdle ==
  /\ repairPc = "Idle"
  /\ repairExit = -1
  /\ repairRuns = 0
  /\ stagesRun = << >>

DerivedFiles == {"feed", "raw", "hourly", "daily", "whale", "validator_cache"}

RebuildIdle ==
  /\ rebuildPc = "idle"
  /\ rebuildExit = -1
  /\ rebuildRuns = 0
  /\ rebuildEnv = [FEED_KEEP |-> FEED_KEEP,
                   RUN_PENDING |-> TRUE, RUN_UNBONDING |-> TRUE]
  /\ rebuildNow = 0
  /\ rebuildEvents = << >>
  /\ scriptsRun = << >>
  /\ derived = [f \in DerivedFiles |-> NoFile]

NoCall == [in_flight |-> FALSE]

NetworkIdle ==
  /\ netStage = "idle"
  /\ callsLeft = 0
  /\ call = NoCall
  /\ waited = 0
  /\ settled = << >>

Init ==
  /\ RPC_PROVIDERS = DefaultProviders
  /\ IngestionIdle
  /\ OVERLAP_HOURS = DefaultOverlapHours
  /\ nowIso = 1
  /\ NormalizerIdle
  /\ healthFile = NoFile
  /\ RepairIdle
  /\ RebuildIdle
  /\ NetworkIdle

\* A process is started by the scheduler once the previous one has exited;
\* it captures the wall clock and hands one task per provider to allSettled.
StartRun ==
  /\ pc \in {"idle", "done", "failed"}
  /\ \E t \in (nowIso + 1)..MaxNow : nowIso' = t
  /\ pc' = "fetch"
  /\ exitCode' = -1
  /\ fetchResult' = [i \in ProviderIdx |-> NotFetched]
  /\ tasks' = [i \in ProviderIdx |-> PendingTask]
  /\ running' = 0
  /\ providerRuns' = <<>>
  /\ dynamicQuorum' = 0
  /\ evidence' = NoEvidence
  /\ canonical' = <<>>
  /\ quorumEvents' = <<>>
  /\ droppedByQuorum' = 0
  /\ skippedExisting' = 0
  /\ toAppendByPartition' = <<>>
  /\ appendIdx' = 1
  /\ stateFile' = Superseded(stateFile)
  /\ sourceStatusFile' = Superseded(sourceStatusFile)
  /\ UNCHANGED << OVERLAP_HOURS, RPC_PROVIDERS >>
  /\ UNCHANGED others
  /\ UNCHANGED << ledger, replay >>

ReplayAllows(i, outcome) ==
  IF replay = NoReplay THEN TRUE ELSE replay.outcomes[i] = outcome

\* the guard of SpawnFetcher: the task is waiting and no spawnSync call is
\* holding the thread
CanSpawn(i) ==
  /\ pc = "fetch"
  /\ tasks[i].status = "pending"
  /\ running = 0

\* runFetcherForProvider reaches spawnSync: the thread is held until the
\* fetcher child of provider i has exited
SpawnFetcher(i) ==
  /\ CanSpawn(i)
  /\ running' = i
  /\ UNCHANGED << OVERLAP_HOURS, RPC_PROVIDERS >>
  /\ UNCHANGED others
  /\ UNCHANGED << pc, nowIso, ledger, stateFile, sourceStatusFile, exitCode,
                  fetchResult, tasks, locals, appendIdx, replay >>

FetchExit_writesLedger(i) ==
  /\ pc = "fetch"
  /\ tasks[i].status = "pending"
  /\ running = i
  /\ running' = 0
  /\ ReplayAllows(i, [kind |-> "exit", items |-> <<>>])
  /\ fetchResult' = [fetchResult EXCEPT ![i] = [kind |-> "exit", items |-> <<>>]]
  /\ tasks' = [tasks EXCEPT ![i] =
       [status |-> "fulfilled",
        value |-> [provider |-> providerName(RPC_PROVIDERS[i]),
                   ok |-> FALSE,
                   error |-> "exit",
                   events |-> <<>>]]]
  /\ ledger' = [ledger EXCEPT ![1] =
                  Append(ledger[1], normalizeEvent(WellFormed(1, 1), "exit"))]
  /\ UNCHANGED << OVERLAP_HOURS, RPC_PROVIDERS >>
  /\ UNCHANGED others
  /\ UNCHANGED << pc, nowIso, stateFile, sourceStatusFile, exitCode,
                  locals, appendIdx, replay >>

\* runFetcherForProvider: the fetcher exited with a non-zero status
FetchExit(i) ==
  /\ pc = "fetch"
  /\ tasks[i].status = "pending"
  /\ running = i
  /\ running' = 0
  /\ ReplayAllows(i, [kind |-> "exit", items |-> <<>>])
  /\ fetchResult' = [fetchResult EXCEPT ![i] = [kind |-> "exit", items |-> <<>>]]
  /\ tasks' = [tasks EXCEPT ![i] =
       [status |-> "fulfilled",
        value |-> [provider |-> providerName(RPC_PROVIDERS[i]),
                   ok |-> FALSE,
                   error |-> "exit",
                   events |-> <<>>]]]
  /\ UNCHANGED << OVERLAP_HOURS, RPC_PROVIDERS >>
  /\ UNCHANGED others
  /\ UNCHANGED << pc, nowIso, ledger, stateFile, sourceStatusFile, exitCode,
                  locals, appendIdx, replay >>

\* runFetcherForProvider throws (mkdtemp, the normalizer, the cleanup)
FetchThrow(i) ==
  /\ pc = "fetch"
  /\ tasks[i].status = "pending"
  /\ running \in {0, i}
  /\ running' = 0
  /\ ReplayAllows(i, [kind |-> "throw", items |-> <<>>])
  /\ fetchResult' = [fetchResult EXCEPT ![i] = [kind |-> "throw", items |-> <<>>]]
  /\ tasks' = [tasks EXCEPT ![i] = [status |-> "rejected", reason |-> "thrown"]]
  /\ UNCHANGED << OVERLAP_HOURS, RPC_PROVIDERS >>
  /\ UNCHANGED others
  /\ UNCHANGED << pc, nowIso, ledger, stateFile, sourceStatusFile, exitCode,
                  locals, appendIdx, replay >>

\* runFetcherForProvider: the fetcher exited 0 and left raw.items = items;
\* a throw inside the map rejects the task
FetchOk(i, items) ==
  /\ pc = "fetch"
  /\ tasks[i].status = "pending"
  /\ running = i
  /\ running' = 0
  /\ ReplayAllows(i, [kind |-> "ok", items |-> items])
  /\ fetchResult' = [fetchResult EXCEPT ![i] = [kind |-> "ok", items |-> items]]
  /\ tasks' = [tasks EXCEPT ![i] =
       IF \E k \in 1..Len(items) : normalizeThrows(items[k])
       THEN [status |-> "rejected", reason |-> "Invalid time value"]
       ELSE [status |-> "fulfilled",
             value |-> [provider |-> providerName(RPC_PROVIDERS[i]),
                        ok |-> TRUE,
                        error |-> "null",
                        events |-> NormalizedEvents(
                                     items, providerName(RPC_PROVIDERS[i]))]]]
  /\ UNCHANGED << OVERLAP_HOURS, RPC_PROVIDERS >>
  /\ UNCHANGED others
  /\ UNCHANGED << pc, nowIso, ledger, stateFile, sourceStatusFile, exitCode,
                  locals, appendIdx, replay >>

\* main, from the settlement of every task to the start of the append loop
Reconcile ==
  /\ pc = "fetch"
  /\ \A i \in ProviderIdx : tasks[i].status # "pending"
  /\ LET runs == [i \in ProviderIdx |-> SettledRun(i)]
         okRuns == okRunsOf(runs)
         q == DynamicQuorumOf(Len(okRuns))
         reps == Reports(okRuns)
         canon == BuildCanonical(reps, <<>>)
         evid == BuildEvidence(reps, NoEvidence)
         accepted == QuorumEventsOf(canon, evid, q)
         existingIds == loadExistingIdsForPartitions(
                          PartitionsOf(accepted, nowIso), ledger)
     IN  /\ providerRuns' = runs
         /\ dynamicQuorum' = q
         /\ canonical' = canon
         /\ evidence' = evid
         /\ quorumEvents' = accepted
         /\ droppedByQuorum' = DroppedByQuorumOf(canon, evid, q)
         /\ skippedExisting' = SkippedExistingOf(accepted, existingIds)
         /\ toAppendByPartition' =
              GroupByPartition(accepted, existingIds, nowIso, <<>>)
  /\ appendIdx' = 1
  /\ pc' = "append"
  /\ UNCHANGED running
  /\ UNCHANGED << OVERLAP_HOURS, RPC_PROVIDERS >>
  /\ UNCHANGED others
  /\ UNCHANGED << nowIso, ledger, stateFile, sourceStatusFile, exitCode,
                  fetchResult, tasks, replay >>

\* one iteration of the append loop
AppendPartition ==
  /\ pc = "append"
  /\ appendIdx <= Len(toAppendByPartition)
  /\ LET entry == toAppendByPartition[appendIdx] IN
       ledger' = [ledger EXCEPT ![entry.p] =
                    AppendFile(ledger[entry.p], SortByTimestamp(entry.rows))]
  /\ appendIdx' = appendIdx + 1
  /\ UNCHANGED running
  /\ UNCHANGED << OVERLAP_HOURS, RPC_PROVIDERS >>
  /\ UNCHANGED others
  /\ UNCHANGED << pc, nowIso, stateFile, sourceStatusFile, exitCode,
                  fetchResult, tasks, locals, replay >>

AppendFails_writesStatus ==
  /\ pc = "append"
  /\ appendIdx <= Len(toAppendByPartition)
  /\ pc' = "failed"
  /\ exitCode' = 1
  /\ sourceStatusFile' =
       SourceStatusOf(providerRuns, dynamicQuorum, droppedByQuorum,
                      skippedExisting, toAppendByPartition, nowIso)
  /\ UNCHANGED running
  /\ UNCHANGED << OVERLAP_HOURS, RPC_PROVIDERS >>
  /\ UNCHANGED others
  /\ UNCHANGED << nowIso, ledger, stateFile, fetchResult, tasks,
                  locals, appendIdx, replay >>

\* fs.appendFile rejects: main rejects and the catch handler exits 1
AppendFails ==
  /\ pc = "append"
  /\ appendIdx <= Len(toAppendByPartition)
  /\ pc' = "failed"
  /\ exitCode' = 1
  /\ UNCHANGED running
  /\ UNCHANGED << OVERLAP_HOURS, RPC_PROVIDERS >>
  /\ UNCHANGED others
  /\ UNCHANGED << nowIso, ledger, stateFile, sourceStatusFile, fetchResult, tasks,
                  locals, appendIdx, replay >>

\* An instant of a run is written as the tick the process started at plus a
\* number of hours.  new Date(Date.now() - OVERLAP_HOURS * 3600 * 1000), read
\* when the process has been running for elapsed hours
SinceOf(now, elapsed, overlap) == [from |-> now, hours |-> elapsed - overlap]

\* fs.writeFile(STATE_FILE, nextState), elapsed hours into the run
WriteState(elapsed) ==
  /\ pc = "append"
  /\ appendIdx > Len(toAppendByPartition)
  /\ stateFile' =
       [exists |-> TRUE,
        fresh |-> TRUE,
        last_ingest_at |-> nowIso,
        cursors |-> [since |-> SinceOf(nowIso, elapsed, OVERLAP_HOURS)],
        stats |-> StatsOf(providerRuns, dynamicQuorum, canonical, quorumEvents,
                          droppedByQuorum, skippedExisting, toAppendByPartition)]
  /\ pc' = "status"
  /\ UNCHANGED running
  /\ UNCHANGED << OVERLAP_HOURS, RPC_PROVIDERS >>
  /\ UNCHANGED others
  /\ UNCHANGED << nowIso, ledger, sourceStatusFile, exitCode, fetchResult,
                  tasks, locals, appendIdx, replay >>

\* fs.writeFile(SOURCE_STATUS_FILE, sourceStatus); main resolves, exit 0
WriteSourceStatus ==
  /\ pc = "status"
  /\ sourceStatusFile' =
       SourceStatusOf(providerRuns, dynamicQuorum, droppedByQuorum,
                      skippedExisting, toAppendByPartition, nowIso)
  /\ pc' = "done"
  /\ exitCode' = 0
  /\ UNCHANGED running
  /\ UNCHANGED << OVERLAP_HOURS, RPC_PROVIDERS >>
  /\ UNCHANGED others
  /\ UNCHANGED << nowIso, ledger, stateFile, fetchResult, tasks, locals,
                  appendIdx, replay >>

\* Every provider reachable; each returns records of one month.
Next ==
  \/ StartRun
  \/ \E i \in ProviderIdx : SpawnFetcher(i)
  \/ \E i \in ProviderIdx : FetchExit(i)
  \/ \E i \in ProviderIdx : FetchThrow(i)
  \/ \E i \in ProviderIdx, items \in QuorumItemLists : FetchOk(i, items)
  \/ Reconcile
  \/ AppendPartition
  \/ AppendFails
  \/ WriteState(1)
  \/ WriteSourceStatus

Spec == Init /\ [][Next]_vars

\* Only the first provider reachable (the fetchers of the others exit
\* non-zero); it returns any records.
NextLedger ==
  \/ StartRun
  \/ \E i \in ProviderIdx : SpawnFetcher(i)
  \/ \E i \in ProviderIdx : FetchExit(i)
  \/ FetchThrow(1)
  \/ \E items \in RawItemLists : FetchOk(1, items)
  \/ Reconcile
  \/ AppendPartition
  \/ AppendFails
  \/ WriteState(1)
  \/ WriteSourceStatus

SpecLedger == Init /\ [][NextLedger]_vars

\* The providers answer a later run exactly as they answered a completed one.
Remember ==
  /\ pc = "done"
  /\ replay = NoReplay
  /\ replay' = [at |-> nowIso, outcomes |-> fetchResult]
  /\ UNCHANGED running
  /\ UNCHANGED << OVERLAP_HOURS, RPC_PROVIDERS >>
  /\ UNCHANGED others
  /\ UNCHANGED << pc, nowIso, ledger, stateFile, sourceStatusFile, exitCode,
                  fetchResult, tasks, locals, appendIdx >>

NextReplay == NextLedger \/ Remember

SpecReplay == Init /\ [][NextReplay]_vars

\* The state tracker under every configuration: the overlap window is read
\* from the environment, and the state document is written an hour or
\* several hours after the process started.
OverlapHours == {0, DefaultOverlapHours}
Elapsed == {1, 7}

InitState ==
  /\ RPC_PROVIDERS = DefaultProviders
  /\ IngestionIdle
  /\ OVERLAP_HOURS \in OverlapHours
  /\ nowIso = 1
  /\ NormalizerIdle
  /\ healthFile = NoFile
  /\ RepairIdle
  /\ RebuildIdle
  /\ NetworkIdle

NextState ==
  \/ StartRun
  \/ \E i \in ProviderIdx : SpawnFetcher(i)
  \/ \E i \in ProviderIdx : FetchExit(i)
  \/ \E i \in ProviderIdx : FetchThrow(i)
  \/ \E i \in ProviderIdx, items \in QuorumItemLists : FetchOk(i, items)
  \/ Reconcile
  \/ AppendPartition
  \/ AppendFails
  \/ \E elapsed \in Elapsed : WriteState(elapsed)
  \/ WriteSourceStatus

SpecState == InitState /\ [][NextState]_vars

\* Providers that return malformed records: the first provider returns
\* well-formed records and records with one identity field or the timestamp
\* spoilt, the second the well-formed record of the first event.
Spoilt(ev) ==
  { [ev EXCEPT !.amount_atom = 0],
    [ev EXCEPT !.amount_atom = 0 - AmountOfId(ev.id)],
    [ev EXCEPT !.amount_atom = NaN],
    [ev EXCEPT !.type = "send"],
    [ev EXCEPT !.timestamp = NoTs, !.height = 0],
    [ev EXCEPT !.timestamp = BadTs, !.height = 0] }

MalformedItemLists ==
  LET items == {WellFormed(1, 1), WellFormed(2, 1)} \cup Spoilt(WellFormed(1, 1))
  IN  UNION { [1..n -> items] : n \in 0..MaxItemsSole }

NextMalformed ==
  \/ StartRun
  \/ \E i \in ProviderIdx : SpawnFetcher(i)
  \/ \E i \in ProviderIdx : FetchExit(i)
  \/ \E items \in MalformedItemLists : FetchOk(1, items)
  \/ FetchOk(2, << WellFormed(1, 1) >>)
  \/ Reconcile
  \/ AppendPartition
  \/ AppendFails
  \/ WriteState(1)
  \/ WriteSourceStatus

SpecMalformed == Init /\ [][NextMalformed]_vars

\* The reconciliation under the default endpoints and under endpoints that
\* share a host.
InitEndpoints ==
  /\ RPC_PROVIDERS \in {DefaultProviders, SharedHostProviders}
  /\ IngestionIdle
  /\ OVERLAP_HOURS = DefaultOverlapHours
  /\ nowIso = 1
  /\ NormalizerIdle
  /\ healthFile = NoFile
  /\ RepairIdle
  /\ RebuildIdle
  /\ NetworkIdle

SpecEndpoints == InitEndpoints /\ [][Next]_vars

\* ------------------------------------------------ overlapping processes
\* An ingestion process that the scheduler starts while another one is
\* running, on the same ledger and in the same tick.  It is followed from
\* the point where it has its quorum events: items are the records its
\* only reachable provider returned.
OverlapItemLists ==
  { items \in UNION { [1..n -> { WellFormed(id, timestamp) :
                                   id \in 1..2, timestamp \in {NoTs, 1} }] :
                       n \in 0..MaxItemsSole } :
      \A j \in 1..Len(items), k \in 1..Len(items) :
        items[j].id = items[k].id => j = k }

\* main of the overlapping process, lines 233-246: it reads the partitions
\* it touches and groups what they do not hold
OverlapReconcile(items) ==
  /\ overlapPc = "idle"
  /\ pc \in {"fetch", "append"}
  /\ LET accepted == NormalizedEvents(items, providerName(RPC_PROVIDERS[1]))
         existingIds == loadExistingIdsForPartitions(
                          PartitionsOf(accepted, nowIso), ledger)
     IN  overlapToAppend' = GroupByPartition(accepted, existingIds, nowIso, <<>>)
  /\ overlapIdx' = 1
  /\ overlapPc' = "append"
  /\ UNCHANGED << RPC_PROVIDERS, pc, nowIso, OVERLAP_HOURS, ledger, stateFile,
                  sourceStatusFile, exitCode, fetchResult, tasks, running,
                  locals, appendIdx, replay >>
  /\ UNCHANGED << normalizer, healthFile, repair, rebuild, network >>

\* one iteration of the append loop of the overlapping process
OverlapAppend ==
  /\ overlapPc = "append"
  /\ overlapIdx <= Len(overlapToAppend)
  /\ LET entry == overlapToAppend[overlapIdx] IN
       ledger' = [ledger EXCEPT ![entry.p] =
                    AppendFile(ledger[entry.p], SortByTimestamp(entry.rows))]
  /\ overlapIdx' = overlapIdx + 1
  /\ UNCHANGED << RPC_PROVIDERS, pc, nowIso, OVERLAP_HOURS, stateFile,
                  sourceStatusFile, exitCode, fetchResult, tasks, running,
                  locals, appendIdx, replay, overlapPc, overlapToAppend >>
  /\ UNCHANGED << normalizer, healthFile, repair, rebuild, network >>

\* fs.appendFile of the overlapping process rejects
OverlapAppendFails ==
  /\ overlapPc = "append"
  /\ overlapIdx <= Len(overlapToAppend)
  /\ overlapPc' = "failed"
  /\ UNCHANGED << RPC_PROVIDERS, pc, nowIso, OVERLAP_HOURS, ledger, stateFile,
                  sourceStatusFile, exitCode, fetchResult, tasks, running,
                  locals, appendIdx, replay, overlapToAppend, overlapIdx >>
  /\ UNCHANGED << normalizer, healthFile, repair, rebuild, network >>

\* the overlapping process writes its two documents over those on disk and
\* exits; their content is not followed
OverlapWriteDocuments ==
  /\ overlapPc = "append"
  /\ overlapIdx > Len(overlapToAppend)
  /\ stateFile' = OldDocument
  /\ sourceStatusFile' = OldDocument
  /\ overlapPc' = "done"
  /\ UNCHANGED << RPC_PROVIDERS, pc, nowIso, OVERLAP_HOURS, ledger, exitCode,
                  fetchResult, tasks, running, locals, appendIdx, replay,
                  overlapToAppend, overlapIdx >>
  /\ UNCHANGED << normalizer, healthFile, repair, rebuild, network >>

NextOverlap ==
  \/ StartRun
  \/ \E i \in ProviderIdx : SpawnFetcher(i)
  \/ \E i \in ProviderIdx : FetchExit(i)
  \/ \E items \in OverlapItemLists : FetchOk(1, items)
  \/ Reconcile
  \/ AppendPartition
  \/ AppendFails
  \/ WriteState(1)
  \/ WriteSourceStatus
  \/ \E items \in OverlapItemLists : OverlapReconcile(items)
  \/ OverlapAppend
  \/ OverlapAppendFails
  \/ OverlapWriteDocuments

SpecOverlap == Init /\ [][NextOverlap]_vars

\* ============================================================ normalizer
\* normalizeEvent and hashId of ingest-events-v2.mjs on whole raw records.
\* A string is a sequence of characters; a number is printed by ToString.
\* An amount is [micro, tenth]: micro millionths of an ATOM plus tenth
\* tenths of a millionth (the seventh decimal digit).  sha1 is taken to be
\* free of collisions: the id is the string that is hashed.
MaxAddrLen == 2      \* longest delegator / validator address
MaxIndex == 1        \* largest message index, event index and height
MaxMicro == 1        \* largest whole number of millionths in an amount
MaxEdits == 2        \* fields in which the two raw records may be varied

Chars == {"a", "A", "|"}
HashChars == {"a", "A", "b"}
Tenths == {0, 4, 6}
RawTypes == {"delegate", "MsgUndelegate", "send"}
ValidatorNames == {"", "Everstake"}
Sources == { providerName(RPC_PROVIDERS[i]) : i \in ProviderIdx }

Strings(alphabet, n) == UNION { [1..k -> alphabet] : k \in 0..n }

Amounts == [micro : 0..MaxMicro, tenth : Tenths]

FieldValues ==
  [ type           |-> RawTypes,
    txhash         |-> Strings(HashChars, 1),
    msg_index      |-> 0..MaxIndex,
    event_index    |-> 0..MaxIndex,
    amount_atom    |-> Amounts,
    timestamp      |-> {NoTs, 1},
    height         |-> 0..MaxIndex,
    delegator      |-> Strings(Chars, MaxAddrLen),
    validator_addr |-> Strings(Chars, MaxAddrLen),
    validator_name |-> ValidatorNames ]

Fields == DOMAIN FieldValues

\* the records both raw records start from
BaseRecords ==
  { [ type           |-> "delegate",
      txhash         |-> <<"a">>,
      msg_index      |-> 0,
      event_index    |-> 0,
      amount_atom    |-> [micro |-> 1, tenth |-> t],
      timestamp      |-> 1,
      height         |-> 1,
      delegator      |-> <<"a">>,
      validator_addr |-> <<"a">>,
      validator_name |-> "" ] : t \in {0, 4} }

toUpperCase(str) ==
  [ k \in 1..Len(str) |->
      CASE str[k] = "a" -> "A" [] str[k] = "b" -> "B" [] OTHER -> str[k] ]

toLowerCase(str) ==
  [ k \in 1..Len(str) |->
      CASE str[k] = "A" -> "a" [] str[k] = "B" -> "b" [] OTHER -> str[k] ]

\* Number.prototype.toFixed(6): the nearest whole number of millionths
toFixed6(amount) == amount.micro + (IF amount.tenth >= 5 THEN 1 ELSE 0)

RECURSIVE Join(_)
Join(parts) ==
  IF Len(parts) = 0 THEN << >>
  ELSE IF Len(parts) = 1 THEN parts[1]
  ELSE parts[1] \o <<"|">> \o Join(Tail(parts))

hashId(parts) == Join(parts)

\* normalizeEvent on a whole raw record
normalizeRecord(ev, source, now) ==
  LET type == normalizeType(ev.type)
      txhash == toUpperCase(ev.txhash)
      delegator == toLowerCase(ev.delegator)
      validatorAddr == ev.validator_addr
  IN  IF type = "null" THEN Null
      ELSE IF ev.amount_atom.micro = 0 /\ ev.amount_atom.tenth = 0 THEN Null
      ELSE IF ev.timestamp = NoTs /\ ev.height = 0 THEN Null
      ELSE [ id |-> hashId(<< <<"cosmoshub-4">>, txhash,
                              <<ToString(ev.msg_index)>>,
                              <<ToString(ev.event_index)>>,
                              <<type>>, delegator, validatorAddr,
                              <<ToString(toFixed6(ev.amount_atom))>>,
                              <<ToString(ev.height)>> >>),
             chain_id |-> "cosmoshub-4",
             source |-> source,
             type |-> type,
             txhash |-> txhash,
             msg_index |-> ev.msg_index,
             event_index |-> ev.event_index,
             timestamp |-> ev.timestamp,
             height |-> ev.height,
             delegator |-> delegator,
             validator_addr |-> validatorAddr,
             validator_name |-> ev.validator_name,
             amount_atom |-> ev.amount_atom,
             ingested_at |-> now ]

InitNormalizer ==
  /\ RPC_PROVIDERS = DefaultProviders
  /\ IngestionIdle
  /\ OVERLAP_HOURS = DefaultOverlapHours
  /\ nowIso = 1
  /\ \E base \in BaseRecords : rawRecords = << base, base >>
  /\ edits = 0
  /\ normalized = << >>
  /\ healthFile = NoFile
  /\ RepairIdle
  /\ RebuildIdle
  /\ NetworkIdle

\* a provider reports one field of one of the two records differently
Vary(r, field, value) ==
  /\ normalized = << >>
  /\ edits < MaxEdits
  /\ rawRecords[r][field] # value
  /\ rawRecords' = [rawRecords EXCEPT ![r][field] = value]
  /\ edits' = edits + 1
  /\ UNCHANGED << normalized, healthFile, repair, rebuild >>
  /\ UNCHANGED network
  /\ UNCHANGED ingestion

\* each record is normalized, possibly by another provider's run
Normalize(sourceA, sourceB, nowA, nowB) ==
  /\ normalized = << >>
  /\ normalized' = << normalizeRecord(rawRecords[1], sourceA, nowA),
                      normalizeRecord(rawRecords[2], sourceB, nowB) >>
  /\ UNCHANGED << rawRecords, edits, healthFile, repair, rebuild >>
  /\ UNCHANGED network
  /\ UNCHANGED ingestion

NextNormalizer ==
  \/ \E r \in 1..2, field \in Fields :
       \E value \in FieldValues[field] : Vary(r, field, value)
  \/ \E sourceA \in Sources, sourceB \in Sources, nowA \in 1..2, nowB \in 1..2 :
       Normalize(sourceA, sourceB, nowA, nowB)

SpecNormalizer == InitNormalizer /\ [][NextNormalizer]_vars

\* ======================================================= health reconciler
\* scripts/v2/reconcile-health-v2.mjs.  The age of an artifact is the number
\* of minutes since its generated_at, NoAge when the file or the field is
\* missing or unreadable.
NoAge == -1
Ages == {30, 60, 91}
Artifacts == {"feed", "pending", "unbonding", "event_intelligence"}

\* generated_at of an artifact: a missing file or field, a string that
\* Date.parse does not read, or a time (given by the minutes since it)
Absent == -2
Unparseable == -3
Stamps == {Absent, Unparseable} \cup Ages

minutesSince(iso) ==
  IF iso = Absent THEN NoAge
  ELSE IF iso = Unparseable THEN NoAge
  ELSE iso

statusByFreshness_strict(mins, okMax) ==
  IF mins = NoAge THEN "missing"
  ELSE IF mins < okMax THEN "ok"
  ELSE "stale"

statusByFreshness(mins, okMax) ==
  IF mins = NoAge THEN "missing"
  ELSE IF mins <= okMax THEN "ok"
  ELSE "stale"

ProviderChecksOf_allOk(source) ==
  IF source.exists
  THEN [name \in DOMAIN source.providers |-> "ok"]
  ELSE << >>

\* checks.provider_<name> for every entry of source.providers
ProviderChecksOf(source) ==
  IF source.exists
  THEN [name \in DOMAIN source.providers |->
          IF source.providers[name].ok THEN "ok" ELSE "degraded"]
  ELSE << >>

QuorumCheckOf(source) ==
  LET success == IF source.exists THEN source.quorum.provider_success ELSE 0
      required == IF source.exists /\ source.quorum.active_required # 0
                  THEN source.quorum.active_required ELSE 1
  IN  IF success = 0 THEN "critical"
      ELSE IF success < required THEN "degraded"
      ELSE "ok"

ChecksOf(source, sourceAge, age) ==
  [ source |-> statusByFreshness(sourceAge, 30),
    feed |-> statusByFreshness(age["feed"], 30),
    pending |-> statusByFreshness(age["pending"], 90),
    unbonding |-> statusByFreshness(age["unbonding"], 90),
    event_intelligence |-> statusByFreshness(age["event_intelligence"], 30),
    providers |-> ProviderChecksOf(source),
    quorum |-> QuorumCheckOf(source) ]

FreshnessChecks ==
  {"source", "feed", "pending", "unbonding", "event_intelligence"}

\* Object.values(checks).filter((v) => v !== 'ok').length
DegradedCountOf(checks) ==
  Cardinality({ c \in FreshnessChecks : checks[c] # "ok" })
  + Cardinality({ name \in DOMAIN checks.providers :
                    checks.providers[name] # "ok" })
  + (IF checks.quorum # "ok" THEN 1 ELSE 0)

OverallOf_lenient(degradedCount) ==
  IF degradedCount = 0 THEN "ok"
  ELSE IF degradedCount <= 3 THEN "degraded"
  ELSE "critical"

OverallOf(degradedCount) ==
  IF degradedCount = 0 THEN "ok"
  ELSE IF degradedCount <= 2 THEN "degraded"
  ELSE "critical"

\* One execution of the reconciler, while no ingestion process is running.
\* The report is overwritten without being read, so the first execution
\* stands for every execution.  A source-status document left by an
\* earlier ingestion process is not read here (Superseded keeps no fields
\* of it).
ReconcileHealth(sourceAge, generatedAt) ==
  /\ pc \in {"idle", "done", "failed"}
  /\ healthFile = NoFile
  /\ sourceStatusFile # OldDocument
  /\ sourceStatusFile.exists <=> sourceAge # NoAge
  /\ LET age == [a \in Artifacts |-> minutesSince(generatedAt[a])]
         checks == ChecksOf(sourceStatusFile, sourceAge, age)
     IN  healthFile' = [ exists |-> TRUE,
                         generated_at |-> nowIso,
                         overall |-> OverallOf(DegradedCountOf(checks)),
                         freshness |-> [ source |-> sourceAge,
                                         feed |-> age["feed"],
                                         pending |-> age["pending"],
                                         unbonding |-> age["unbonding"],
                                         event_intelligence |->
                                           age["event_intelligence"] ],
                         checks |-> checks ]
  /\ UNCHANGED << normalizer, repair, rebuild >>
  /\ UNCHANGED network
  /\ UNCHANGED ingestion

\* one ingestion process, started at the last tick
InitHealth ==
  /\ RPC_PROVIDERS = DefaultProviders
  /\ IngestionIdle
  /\ OVERLAP_HOURS = DefaultOverlapHours
  /\ nowIso = MaxNow - 1
  /\ NormalizerIdle
  /\ healthFile = NoFile
  /\ RepairIdle
  /\ RebuildIdle
  /\ NetworkIdle

HealthItemLists == { << >>, << WellFormed(1, 1) >> }

NextHealth ==
  \/ StartRun
  \/ \E i \in ProviderIdx : SpawnFetcher(i)
  \/ \E i \in ProviderIdx : FetchExit(i)
  \/ \E i \in ProviderIdx : FetchThrow(i)
  \/ \E i \in ProviderIdx, items \in HealthItemLists : FetchOk(i, items)
  \/ Reconcile
  \/ AppendPartition
  \/ AppendFails
  \/ WriteState(1)
  \/ WriteSourceStatus
  \/ /\ healthFile = NoFile
     /\ \E sourceAge \in Ages \cup {NoAge}, generatedAt \in [Artifacts -> Stamps] :
          ReconcileHealth(sourceAge, generatedAt)

SpecHealth == InitHealth /\ [][NextHealth]_vars

\* ================================================================= repair
\* scripts/v2/backfill-repair-v2.mjs: three child processes run one after
\* the other with spawnSync.  A child is known to the repair process by its
\* exit status only; NoStatus is the null status of a child that was killed
\* by a signal or could not be spawned.
MaxStatus == 2       \* largest exit status of a child process
MaxRepairs == 3      \* repair processes started one after the other

NoStatus == -1
Running == -2
Statuses == (0..MaxStatus) \cup {NoStatus}

Stages == << "WideIngest", "Rebuild", "Reconcile" >>

ScriptOf(stage) ==
  CASE stage = "WideIngest" -> "scripts/v2/ingest-events-v2.mjs"
    [] stage = "Rebuild"    -> "scripts/v2/rebuild-derived-v2.mjs"
    [] stage = "Reconcile"  -> "scripts/v2/reconcile-health-v2.mjs"

Spawned(run, stage) ==
  [run |-> run, stage |-> stage, script |-> ScriptOf(stage), status |-> Running]

\* the process starts and main() calls runNode for the first script
RepairStart ==
  /\ repairPc \in {"Idle", "Done", "Failed"}
  /\ repairRuns < MaxRepairs
  /\ repairRuns' = repairRuns + 1
  /\ repairPc' = "WideIngest"
  /\ repairExit' = -1
  /\ stagesRun' = Append(stagesRun, Spawned(repairRuns + 1, "WideIngest"))
  /\ UNCHANGED << normalizer, healthFile, rebuild >>
  /\ UNCHANGED network
  /\ UNCHANGED ingestion

NextStage_skipCheck(stage, status) ==
  CASE stage = "WideIngest" -> "Rebuild"
    [] stage = "Rebuild"    -> "Reconcile"
    [] stage = "Reconcile"  -> "Done"

\* runNode throws unless the child's status is 0; main() goes on to the
\* next runNode call, or returns after the last one
NextStage(stage, status) ==
  IF status # 0 THEN "Failed"
  ELSE CASE stage = "WideIngest" -> "Rebuild"
         [] stage = "Rebuild"    -> "Reconcile"
         [] stage = "Reconcile"  -> "Done"

\* spawnSync returns: the running child exits with a status
StageExits(status) ==
  /\ repairPc \in { Stages[k] : k \in 1..Len(Stages) }
  /\ LET next == NextStage(repairPc, status)
         exited == [stagesRun EXCEPT ![Len(stagesRun)].status = status]
     IN  /\ repairPc' = next
         /\ stagesRun' = IF next \in {"Done", "Failed"} THEN exited
                         ELSE Append(exited, Spawned(repairRuns, next))
         /\ repairExit' = CASE next = "Done" -> 0
                            [] next = "Failed" -> 1
                            [] OTHER -> repairExit
  /\ UNCHANGED << repairRuns, normalizer, healthFile, rebuild >>
  /\ UNCHANGED network
  /\ UNCHANGED ingestion

NextRepair ==
  \/ RepairStart
  \/ \E status \in Statuses : StageExits(status)

SpecRepair == Init /\ [][NextRepair]_vars

\* ================================================================ rebuild
\* scripts/v2/rebuild-derived-v2.mjs.  A ledger row carries the id of its
\* event; type, amount and height are identity fields (the id is their
\* hash), so each id stands for one type, one amount and one height.  A tick
\* is 15 days; two instants are in the same hour, and in the same day,
\* exactly when they are the same tick.  Validator names are left out of
\* the items.
WHALE_FEED_MIN == 50000
WHALE_FEED_DAYS == 30
WHALE_EVENT_MIN == 50000
RAW_KEEP_DAYS == 365
HOURLY_KEEP_DAYS == 370
DaysPerTick == 15

\* the instant `days` days before `now`, in ticks
DaysBefore(now, days) == now - (days \div DaysPerTick)

toIsoHour(t) == [unit |-> "hour", at |-> t]
toIsoDay(t) == [unit |-> "day", at |-> t]

\* listLedgerFiles: the partitions in the order of their names
RECURSIVE AllRows(_, _)
AllRows(files, p) ==
  IF p \notin DOMAIN files THEN << >>
  ELSE files[p] \o AllRows(files, p + 1)

DedupById_keepAll(rows, acc) == acc \o rows

\* dedup.set(row.id, row): the last row of an id stands where its first stood
RECURSIVE DedupById(_, _)
DedupById(rows, acc) ==
  IF rows = << >> THEN acc
  ELSE LET row == Head(rows) IN
       DedupById(Tail(rows),
         IF \E k \in 1..Len(acc) : acc[k].id = row.id
         THEN [k \in 1..Len(acc) |-> IF acc[k].id = row.id THEN row ELSE acc[k]]
         ELSE Append(acc, row))

loadLedgerEvents(files) ==
  LET rows == DedupById(AllRows(files, 1), << >>)
  IN  [k \in 1..Len(rows) |->
         [id |-> rows[k].id,
          type |-> rows[k].type,
          amount_atom |-> rows[k].amount_atom,
          height |-> rows[k].height,
          timestamp |-> rows[k].timestamp]]

\* the comparator of events.sort: newest first, then highest first
NewerThan(a, b) ==
  \/ a.timestamp > b.timestamp
  \/ a.timestamp = b.timestamp /\ a.height > b.height

RECURSIVE InsertNewestFirst(_, _)
InsertNewestFirst(e, s) ==
  IF s = << >> THEN << e >>
  ELSE IF NewerThan(e, Head(s)) THEN << e >> \o s
  ELSE << Head(s) >> \o InsertNewestFirst(e, Tail(s))

RECURSIVE SortNewestFirst(_)
SortNewestFirst(events) ==
  IF events = << >> THEN << >>
  ELSE InsertNewestFirst(events[Len(events)],
                         SortNewestFirst(SubSeq(events, 1, Len(events) - 1)))

\* main, lines 198-208
EventsOf(files, now) ==
  SortNewestFirst(
    SelectSeq(loadLedgerEvents(files),
              LAMBDA e : e.timestamp = NoTs
                         \/ e.timestamp >= DaysBefore(now, RAW_KEEP_DAYS)))

normalizeFeedItem(e) ==
  [type |-> e.type, amount_atom |-> e.amount_atom, height |-> e.height,
   timestamp |-> e.timestamp]

\* feedMap: keyed by id, in insertion order
RECURSIVE FeedMapOf(_, _)
FeedMapOf(events, acc) ==
  IF events = << >> THEN acc
  ELSE LET e == Head(events) IN
       FeedMapOf(Tail(events),
         IF \E k \in 1..Len(acc) : acc[k].id = e.id THEN acc
         ELSE Append(acc, e))

\* main, lines 210-226; keep is FEED_KEEP
FeedItemsOf(events, now, keep) ==
  LET recentFeed == SubSeq(events, 1,
                      IF Len(events) < keep THEN Len(events) ELSE keep)
      whaleFeed == SelectSeq(events,
                     LAMBDA e : /\ e.amount_atom >= WHALE_FEED_MIN
                                /\ \/ e.timestamp = NoTs
                                   \/ e.timestamp >= DaysBefore(now, WHALE_FEED_DAYS))
      kept == SortNewestFirst(FeedMapOf(recentFeed \o whaleFeed, << >>))
  IN  [k \in 1..Len(kept) |-> normalizeFeedItem(kept[k])]

WhalesOf(events, now) ==
  LET whales == SelectSeq(events,
                  LAMBDA e : /\ e.amount_atom >= WHALE_EVENT_MIN
                             /\ \/ e.timestamp = NoTs
                                \/ e.timestamp >= DaysBefore(now, 365))
  IN  [k \in 1..Len(whales) |->
         [type |-> whales[k].type, atom |-> whales[k].amount_atom,
          timestamp |-> whales[k].timestamp]]

EmptyBucket(key) ==
  [key |-> key, delegate_atom |-> 0, undelegate_atom |-> 0, net_atom |-> 0,
   delegates_count |-> 0, undelegates_count |-> 0, total_count |-> 0]

AddToBucket_undelegateAdds(b, item) ==
  IF item.type = "delegate"
  THEN [b EXCEPT !.delegate_atom = @ + item.amount_atom,
                 !.delegates_count = @ + 1,
                 !.net_atom = @ + item.amount_atom,
                 !.total_count = @ + 1]
  ELSE [b EXCEPT !.undelegate_atom = @ + item.amount_atom,
                 !.undelegates_count = @ + 1,
                 !.net_atom = @ + item.amount_atom,
                 !.total_count = @ + 1]

\* the body of the loop of aggregateByTime, lines 148-162, for an item of
\* a positive amount
AddToBucket(b, item) ==
  IF item.type = "delegate"
  THEN [b EXCEPT !.delegate_atom = @ + item.amount_atom,
                 !.delegates_count = @ + 1,
                 !.net_atom = @ + item.amount_atom,
                 !.total_count = @ + 1]
  ELSE [b EXCEPT !.undelegate_atom = @ + item.amount_atom,
                 !.undelegates_count = @ + 1,
                 !.net_atom = @ - item.amount_atom,
                 !.total_count = @ + 1]

\* the loop of aggregateByTime; windowDays = 0 stands for null
\* the key function handed to aggregateByTime, applied by its name
ApplyKeyFn(keyFn, timestamp) ==
  IF keyFn = "toIsoHour" THEN toIsoHour(timestamp) ELSE toIsoDay(timestamp)

RECURSIVE FillBuckets(_, _, _, _, _)
FillBuckets(items, keyFn, windowDays, now, buckets) ==
  IF items = << >> THEN buckets
  ELSE LET item == Head(items)
           key == ApplyKeyFn(keyFn, item.timestamp)
           rest == Tail(items)
       IN  IF item.timestamp = NoTs
           THEN FillBuckets(rest, keyFn, windowDays, now, buckets)
           ELSE IF windowDays # 0 /\ item.timestamp < DaysBefore(now, windowDays)
           THEN FillBuckets(rest, keyFn, windowDays, now, buckets)
           ELSE IF \E k \in 1..Len(buckets) : buckets[k].key = key
           THEN FillBuckets(rest, keyFn, windowDays, now,
                  [k \in 1..Len(buckets) |->
                     IF buckets[k].key = key THEN AddToBucket(buckets[k], item)
                     ELSE buckets[k]])
           ELSE FillBuckets(rest, keyFn, windowDays, now,
                  Append(buckets, AddToBucket(EmptyBucket(key), item)))

RECURSIVE InsertByKey(_, _)
InsertByKey(b, s) ==
  IF s = << >> THEN << b >>
  ELSE IF b.key.at < Head(s).key.at THEN << b >> \o s
  ELSE << Head(s) >> \o InsertByKey(b, Tail(s))

RECURSIVE SortByKey(_)
SortByKey(buckets) ==
  IF buckets = << >> THEN << >>
  ELSE InsertByKey(buckets[Len(buckets)],
                   SortByKey(SubSeq(buckets, 1, Len(buckets) - 1)))

MaxRebuilds == 2     \* rebuild processes started one after the other

\* const buckets = new Map()
NewBuckets_previousHourly ==
  IF derived["hourly"].exists THEN derived["hourly"].items ELSE << >>

NewBuckets == << >>

aggregateByTime(items, keyFn, windowDays, now) ==
  SortByKey(FillBuckets(items, keyFn, windowDays, now, NewBuckets))

\* the order in which main() writes and runs
RebuildSteps ==
  << "feed", "raw", "hourly", "daily", "whale",
     "pending", "unbonding", "validator_cache" >>

StepAfter(step) ==
  IF step = "validator_cache" THEN "done"
  ELSE RebuildSteps[1 + CHOOSE k \in 1..Len(RebuildSteps) : RebuildSteps[k] = step]

\* what main() puts into each of its files
ContentOf(file, events, now) ==
  CASE file = "feed"   -> FeedItemsOf(events, now, rebuildEnv.FEED_KEEP)
    [] file = "raw"    -> [k \in 1..Len(events) |-> normalizeFeedItem(events[k])]
    [] file = "hourly" -> aggregateByTime(events, "toIsoHour", HOURLY_KEEP_DAYS, now)
    [] file = "daily"  -> aggregateByTime(events, "toIsoDay", 0, now)
    [] file = "whale"  -> WhalesOf(events, now)
    [] file = "validator_cache" -> << >>

\* A rebuild process starts after an ingestion process has ended: it
\* loads the ledger, filters and sorts the events (lines 194-208).
RebuildStart(env) ==
  /\ rebuildPc \in {"idle", "done", "failed"}
  /\ pc \in {"done", "failed"}
  /\ rebuildRuns < MaxRebuilds
  /\ rebuildRuns' = rebuildRuns + 1
  /\ rebuildEnv' = env
  /\ rebuildNow' = nowIso
  /\ rebuildEvents' = EventsOf(ledger, nowIso)
  /\ scriptsRun' = << >>
  /\ rebuildPc' = "feed"
  /\ rebuildExit' = -1
  /\ UNCHANGED << derived, normalizer, healthFile, repair >>
  /\ UNCHANGED network
  /\ UNCHANGED ingestion

\* fs.writeFile(file, JSON.stringify(...)) of the file that is next
WriteDerived ==
  /\ rebuildPc \in DerivedFiles
  /\ derived' = [derived EXCEPT ![rebuildPc] =
                   [exists |-> TRUE,
                    generated_at |-> [tick |-> rebuildNow, seq |-> rebuildRuns],
                    total |-> Len(ContentOf(rebuildPc, rebuildEvents, rebuildNow)),
                    items |-> ContentOf(rebuildPc, rebuildEvents, rebuildNow)]]
  /\ rebuildPc' = StepAfter(rebuildPc)
  /\ rebuildExit' = IF rebuildPc = "validator_cache" THEN 0 ELSE rebuildExit
  /\ UNCHANGED << rebuildRuns, rebuildEnv, rebuildNow, rebuildEvents, scriptsRun,
                  normalizer, healthFile, repair >>
  /\ UNCHANGED network
  /\ UNCHANGED ingestion

\* fs.writeFile rejects: main rejects and the catch handler exits 1
WriteDerivedFails ==
  /\ rebuildPc \in DerivedFiles
  /\ rebuildPc' = "failed"
  /\ rebuildExit' = 1
  /\ UNCHANGED << rebuildRuns, rebuildEnv, rebuildNow, rebuildEvents, scriptsRun,
                  derived, normalizer, healthFile, repair >>
  /\ UNCHANGED network
  /\ UNCHANGED ingestion

ScriptOfStep(step) ==
  IF step = "pending" THEN "scripts/fetch-pending-undelegations.mjs"
  ELSE "scripts/fetch-unbonding-flows.mjs"

EnabledFor(step, env) ==
  IF step = "pending" THEN env.RUN_PENDING ELSE env.RUN_UNBONDING

AfterScript_ignoreStatus(step, status) == StepAfter(step)

\* runScript throws unless the status is 0
AfterScript(step, status) ==
  IF status # 0 THEN "failed" ELSE StepAfter(step)

\* if (RUN_...) runScript(...)
RunScript(status) ==
  /\ rebuildPc \in {"pending", "unbonding"}
  /\ EnabledFor(rebuildPc, rebuildEnv)
  /\ scriptsRun' = Append(scriptsRun,
                     [script |-> ScriptOfStep(rebuildPc), status |-> status])
  /\ rebuildPc' = AfterScript(rebuildPc, status)
  /\ rebuildExit' = IF AfterScript(rebuildPc, status) = "failed" THEN 1
                    ELSE rebuildExit
  /\ UNCHANGED << rebuildRuns, rebuildEnv, rebuildNow, rebuildEvents, derived,
                  normalizer, healthFile, repair >>
  /\ UNCHANGED network
  /\ UNCHANGED ingestion

SkipScript ==
  /\ rebuildPc \in {"pending", "unbonding"}
  /\ ~EnabledFor(rebuildPc, rebuildEnv)
  /\ rebuildPc' = StepAfter(rebuildPc)
  /\ UNCHANGED << rebuildExit, rebuildRuns, rebuildEnv, rebuildNow, rebuildEvents,
                  scriptsRun, derived, normalizer, healthFile, repair >>
  /\ UNCHANGED network
  /\ UNCHANGED ingestion

\* one ingestion process (only the first provider reachable), then rebuilds
InitRebuild ==
  /\ RPC_PROVIDERS = DefaultProviders
  /\ IngestionIdle
  /\ OVERLAP_HOURS = DefaultOverlapHours
  /\ nowIso = MaxNow - 1
  /\ NormalizerIdle
  /\ healthFile = NoFile
  /\ RepairIdle
  /\ RebuildIdle
  /\ NetworkIdle

RebuildItemLists ==
  UNION { [1..n -> { WellFormed(id, timestamp) :
                       id \in 1..2, timestamp \in Timestamps }] : n \in 0..2 }

NextRebuild ==
  \/ StartRun
  \/ \E i \in ProviderIdx : SpawnFetcher(i)
  \/ \E i \in ProviderIdx : FetchExit(i)
  \/ \E items \in RebuildItemLists : FetchOk(1, items)
  \/ Reconcile
  \/ AppendPartition
  \/ AppendFails
  \/ WriteState(1)
  \/ WriteSourceStatus
  \/ \E env \in [FEED_KEEP : {FEED_KEEP},
                   RUN_PENDING : BOOLEAN, RUN_UNBONDING : BOOLEAN] : RebuildStart(env)
  \/ WriteDerived
  \/ WriteDerivedFails
  \/ \E status \in Statuses : RunScript(status)
  \/ SkipScript

SpecRebuild == InitRebuild /\ [][NextRebuild]_vars

\* The derived views as functions of the ledger, of the wall clock and of
\* FEED_KEEP: rebuild processes that start on a ledger written by earlier
\* ingestion processes, at a clock of up to 405 days after them.
MaxRowsEach == 2     \* rows of one partition of the ledger that is rebuilt

ViewClocks == {3, 5, 27}
FeedKeeps == {1, FEED_KEEP}

\* the rows an ingestion process can have appended to partition p: events
\* of the month p, and events without a timestamp
StoredRows(p) ==
  { normalizeEvent(WellFormed(id, timestamp), providerName(DefaultProviders[1])) :
      id \in Ids,
      timestamp \in { t \in Timestamps : t = NoTs \/ Month(t) = p } }

\* a partition as ingestion processes can leave it; processes that overlap
\* can have appended an id twice
PartitionContents(p) ==
  UNION { [1..n -> StoredRows(p)] : n \in 0..MaxRowsEach }

InitViews ==
  /\ RPC_PROVIDERS = DefaultProviders
  /\ pc = "done"
  /\ ledger \in [Partitions -> UNION { PartitionContents(p) : p \in Partitions }]
  /\ \A p \in Partitions : ledger[p] \in PartitionContents(p)
  /\ stateFile = OldDocument
  /\ sourceStatusFile = OldDocument
  /\ exitCode = 0
  /\ fetchResult = [i \in ProviderIdx |-> NotFetched]
  /\ tasks = [i \in ProviderIdx |-> PendingTask]
  /\ running = 0
  /\ providerRuns = <<>>
  /\ dynamicQuorum = 0
  /\ evidence = NoEvidence
  /\ canonical = <<>>
  /\ quorumEvents = <<>>
  /\ droppedByQuorum = 0
  /\ skippedExisting = 0
  /\ toAppendByPartition = <<>>
  /\ appendIdx = 1
  /\ replay = NoReplay
  /\ overlapPc = "idle"
  /\ overlapToAppend = <<>>
  /\ overlapIdx = 1
  /\ OVERLAP_HOURS = DefaultOverlapHours
  /\ nowIso \in ViewClocks
  /\ NormalizerIdle
  /\ healthFile = NoFile
  /\ RepairIdle
  /\ RebuildIdle
  /\ NetworkIdle

NextViews ==
  \/ \E keep \in FeedKeeps :
       RebuildStart([FEED_KEEP |-> keep,
                     RUN_PENDING |-> FALSE, RUN_UNBONDING |-> FALSE])
  \/ WriteDerived
  \/ SkipScript

SpecViews == InitViews /\ [][NextViews]_vars

\* The whole pipeline: one ingestion process, then rebuilds and the health
\* reconciler, which finds every artifact fresh or none.
PipelineStamps == { [a \in Artifacts |-> stamp] : stamp \in {Absent, 30} }

NextPipeline ==
  \/ NextRebuild
  \/ /\ healthFile = NoFile
     /\ \E sourceAge \in {NoAge, 30}, generatedAt \in PipelineStamps :
          ReconcileHealth(sourceAge, generatedAt)

SpecPipeline == InitRebuild /\ [][NextPipeline]_vars

\* ================================================================ network
\* The stages that call the network: the fetcher child of an ingestion
\* process (scripts/fetch-delegation-feed.mjs, every call through fetchJson)
\* and the validator-name lookup of a rebuild process (resolveMoniker of
\* scripts/v2/rebuild-derived-v2.mjs).  The clock advances in ticks of
\* TickMs milliseconds while a call is in flight.
MaxCalls == 3        \* network calls one stage makes
MaxWait == 4         \* ticks the clock is followed while a call is in flight

TickMs == 5000
NoTimeout == 0       \* no signal is handed to fetch
FetchJsonTimeouts == {15000, 10000}

StartStages == {"idle", "done"}

\* a stage starts and has n calls to make, one after the other
StartStage(stage, n) ==
  /\ netStage \in StartStages
  /\ netStage' = stage
  /\ callsLeft' = n
  /\ settled' = << >>
  /\ UNCHANGED << call, waited >>
  /\ UNCHANGED << normalizer, healthFile, repair, rebuild >>
  /\ UNCHANGED ingestion

\* fetchJson(url, timeoutMs): fetch with the signal of an AbortController
\* that a timer aborts after timeoutMs
fetchJson(timeoutMs) ==
  /\ netStage = "fetcher"
  /\ call = NoCall
  /\ callsLeft > 0
  /\ call' = [in_flight |-> TRUE, by |-> "fetchJson", timeoutMs |-> timeoutMs]
  /\ callsLeft' = callsLeft - 1
  /\ waited' = 0
  /\ UNCHANGED << netStage, settled >>
  /\ UNCHANGED << normalizer, healthFile, repair, rebuild >>
  /\ UNCHANGED ingestion

\* resolveMoniker(valoperAddr): fetch with headers only
resolveMoniker ==
  /\ netStage = "lookup"
  /\ call = NoCall
  /\ callsLeft > 0
  /\ call' = [in_flight |-> TRUE, by |-> "resolveMoniker", timeoutMs |-> NoTimeout]
  /\ callsLeft' = callsLeft - 1
  /\ waited' = 0
  /\ UNCHANGED << netStage, settled >>
  /\ UNCHANGED << normalizer, healthFile, repair, rebuild >>
  /\ UNCHANGED ingestion

Expired(c, ticks) == c.timeoutMs # NoTimeout /\ ticks * TickMs >= c.timeoutMs

\* the endpoint has not answered yet
Wait ==
  /\ call # NoCall
  /\ ~Expired(call, waited)
  /\ waited < MaxWait
  /\ waited' = waited + 1
  /\ UNCHANGED << netStage, callsLeft, call, settled >>
  /\ UNCHANGED << normalizer, healthFile, repair, rebuild >>
  /\ UNCHANGED ingestion

\* the call settles: a response or an error reaches the caller
Respond ==
  /\ call # NoCall
  /\ ~Expired(call, waited)
  /\ call' = NoCall
  /\ waited' = 0
  /\ settled' = Append(settled, "settled")
  /\ UNCHANGED << netStage, callsLeft >>
  /\ UNCHANGED << normalizer, healthFile, repair, rebuild >>
  /\ UNCHANGED ingestion

\* the timer of fetchJson fires: ac.abort() rejects the fetch
Abort ==
  /\ call # NoCall
  /\ Expired(call, waited)
  /\ call' = NoCall
  /\ waited' = 0
  /\ settled' = Append(settled, "aborted")
  /\ UNCHANGED << netStage, callsLeft >>
  /\ UNCHANGED << normalizer, healthFile, repair, rebuild >>
  /\ UNCHANGED ingestion

\* the stage has made its calls
FinishStage ==
  /\ netStage \notin StartStages
  /\ call = NoCall
  /\ callsLeft = 0
  /\ netStage' = "done"
  /\ UNCHANGED << callsLeft, call, waited, settled >>
  /\ UNCHANGED << normalizer, healthFile, repair, rebuild >>
  /\ UNCHANGED ingestion

NextNetwork ==
  \/ \E stage \in {"fetcher", "lookup"}, n \in 0..MaxCalls : StartStage(stage, n)
  \/ \E timeoutMs \in FetchJsonTimeouts : fetchJson(timeoutMs)
  \/ resolveMoniker
  \/ Wait
  \/ Respond
  \/ Abort
  \/ FinishStage

SpecNetwork == Init /\ [][NextNetwork]_vars

\* ================================================================ claims
Reconciled == pc \in {"append", "status", "done", "failed"}

OkProviders == { i \in ProviderIdx : providerRuns[i].ok }

ReportedBy(i) ==
  { providerRuns[i].events[k].id : k \in 1..Len(providerRuns[i].events) }

Candidates == UNION { ReportedBy(i) : i \in OkProviders }

Supporters(id) ==
  Cardinality({ providerRuns[i].provider :
                  i \in { j \in OkProviders : id \in ReportedBy(j) } })

EffectiveQuorum ==
  LET n == Cardinality(OkProviders)
      m == IF RPC_QUORUM_MIN < n THEN RPC_QUORUM_MIN ELSE n
  IN  IF m > 1 THEN m ELSE 1

AcceptedIds == { quorumEvents[k].id : k \in 1..Len(quorumEvents) }

\* C1: with q = max(1, min(configured minimum, providers ok)), a candidate id
\* is accepted iff at least q distinct ok providers reported it, and every
\* candidate that is not accepted is counted in dropped_by_quorum (in the
\* run and in both documents it writes).
C1_QuorumAcceptance ==
  Reconciled =>
    /\ dynamicQuorum = EffectiveQuorum
    /\ AcceptedIds = { id \in Candidates : Supporters(id) >= EffectiveQuorum }
    /\ Len(quorumEvents) = Cardinality(AcceptedIds)
    /\ droppedByQuorum = Cardinality(Candidates \ AcceptedIds)
    /\ pc \in {"status", "done"} =>
         stateFile.stats.dropped_by_quorum = Cardinality(Candidates \ AcceptedIds)
    /\ pc = "done" =>
         sourceStatusFile.quorum.dropped_by_quorum =
           Cardinality(Candidates \ AcceptedIds)

\* three ok providers, configured quorum 2: one id seen by a single provider
\* is dropped and counted while another id is accepted
C1_Witness ==
  /\ pc = "done"
  /\ Cardinality(OkProviders) = 3
  /\ \E id \in Candidates : Supporters(id) = 1 /\ id \notin AcceptedIds
  /\ \E id \in Candidates : Supporters(id) = 2 /\ id \in AcceptedIds
  /\ sourceStatusFile.quorum.dropped_by_quorum = 1

RowsWithId(id) ==
  { <<p, k>> \in Partitions \X (1..(2 * NumIds)) :
      k <= Len(ledger[p]) /\ ledger[p][k].id = id }

\* C2: each event id occurs in at most one row of the whole ledger, across
\* all monthly partitions.
C2_EventPersistedOnce ==
  \A id \in Ids : Cardinality(RowsWithId(id)) <= 1

\* C3: a run in which the providers return what they returned in the
\* completed run before it appends nothing and counts every accepted event
\* as skipped_existing.
C3_SecondRunAppendsNothing ==
  (replay # NoReplay /\ nowIso > replay.at /\ Reconciled) =>
    /\ toAppendByPartition = <<>>
    /\ skippedExisting = Len(quorumEvents)

\* C4: no step of a run lowers the row count of a partition.
C4_RowCountNeverDecreases ==
  [][\A p \in Partitions : Len(ledger'[p]) >= Len(ledger[p])]_vars

\* a completed run appended to a partition that already held rows
C4_Witness ==
  /\ pc = "done"
  /\ \E k \in 1..Len(toAppendByPartition) :
       Len(ledger[toAppendByPartition[k].p]) > Len(toAppendByPartition[k].rows)

\* C6: the content a partition had before a step is a prefix of its content
\* after the step: rows are never deleted, rewritten or reordered.
C6_AppendOnly ==
  [][\A p \in Partitions : IsPrefix(ledger[p], ledger'[p])]_vars

\* a late row was appended behind an older row that carries a later timestamp
C6_Witness ==
  /\ pc = "done"
  /\ \E k \in 1..Len(toAppendByPartition) :
       LET entry == toAppendByPartition[k]
           file == ledger[entry.p]
       IN  /\ Len(file) > Len(entry.rows)
           /\ file[1].timestamp # NoTs
           /\ file[Len(file)].timestamp # NoTs
           /\ file[Len(file)].timestamp < file[1].timestamp

Ascending(rows, from) ==
  \A k \in from..(Len(rows) - 1) :
    (rows[k].timestamp # NoTs /\ rows[k + 1].timestamp # NoTs)
      => rows[k].timestamp <= rows[k + 1].timestamp

\* C7 (as claimed): the rows of each partition are in ascending timestamp
\* order after any sequence of runs.
C7_PartitionAscending ==
  \A p \in Partitions : Ascending(ledger[p], 1)

\* C7 (amended): the rows one run appends to a partition are in ascending
\* timestamp order among themselves, rows without a timestamp last.
C7_BatchAscending ==
  [][\A p \in Partitions :
       /\ Ascending(ledger'[p], Len(ledger[p]) + 1)
       /\ \A k \in (Len(ledger[p]) + 1)..(Len(ledger'[p]) - 1) :
            ledger'[p][k].timestamp = NoTs => ledger'[p][k + 1].timestamp = NoTs
    ]_vars

\* a batch reconciled in descending timestamp order was written ascending
C7_Witness ==
  /\ pc = "done"
  /\ \E k \in 1..Len(toAppendByPartition) :
       LET rows == toAppendByPartition[k].rows
           file == ledger[toAppendByPartition[k].p]
       IN  /\ Len(rows) = 2
           /\ rows[2].timestamp # NoTs
           /\ rows[2].timestamp < rows[1].timestamp
           /\ file[Len(file)] = rows[1]

\* C8: no partition holds two rows with the same event id.
C8_PartitionDeduplicated ==
  \A p \in Partitions :
    \A j, k \in 1..Len(ledger[p]) :
      ledger[p][j].id = ledger[p][k].id => j = k

\* a run skipped an id its partition already held and appended another one
C8_Witness ==
  /\ pc = "done"
  /\ skippedExisting >= 1
  /\ \E k \in 1..Len(toAppendByPartition) :
       Len(ledger[toAppendByPartition[k].p]) > Len(toAppendByPartition[k].rows)

Failed(i) == fetchResult[i].kind \in {"exit", "throw"}

FetchedIds(i) ==
  { fetchResult[i].items[k].id : k \in 1..Len(fetchResult[i].items) }

\* C9: a provider whose fetcher exits non-zero or whose task throws is
\* recorded ok=false with an error and no events, in the run and in the
\* source status it writes; the run is not failed by it (only a failing
\* ledger append ends a run with an error) and reconciles exactly the
\* events of the providers that returned ok.
C9_ProviderFailureIsolated ==
  /\ Reconciled =>
       /\ \A i \in ProviderIdx :
            Failed(i) => /\ providerRuns[i].ok = FALSE
                         /\ providerRuns[i].error # "null"
                         /\ providerRuns[i].events = <<>>
       /\ OkProviders = { i \in ProviderIdx : ~Failed(i) }
       /\ { canonical[k].id : k \in 1..Len(canonical) } =
            UNION { FetchedIds(i) : i \in { j \in ProviderIdx : ~Failed(j) } }
  /\ pc = "failed" => appendIdx <= Len(toAppendByPartition)
  /\ pc = "done" =>
       /\ exitCode = 0
       /\ \A i \in ProviderIdx :
            Failed(i) =>
              LET stat == sourceStatusFile.providers[
                            providerName(RPC_PROVIDERS[i])]
              IN  stat.ok = FALSE /\ stat.error # "null" /\ stat.events = 0

\* one fetcher exited non-zero, one task threw, the third provider's event
\* was reconciled, accepted and appended
C9_Witness ==
  /\ pc = "done"
  /\ \E i \in ProviderIdx : fetchResult[i].kind = "exit"
  /\ \E i \in ProviderIdx : fetchResult[i].kind = "throw"
  /\ Len(quorumEvents) = 1
  /\ toAppendByPartition # <<>>

\* C10: a run in which no provider returned ok exits with a non-zero status.
C10_NoProviderOkExitsNonZero ==
  (pc \in {"done", "failed"} /\ providerRuns # <<>> /\ OkProviders = {})
    => exitCode # 0

\* ---------------------------------------------------------------- C11, C12
BothNormalized ==
  /\ normalized # << >>
  /\ normalized[1] # Null
  /\ normalized[2] # Null

\* the two raw records describe one event: they agree in every field, up to
\* the letter case of the addresses and of the tx hash and up to the digits
\* of the amount after the sixth decimal
DifferOnlyInCaseOrNoise ==
  LET a == rawRecords[1]
      b == rawRecords[2]
  IN  /\ \A f \in Fields \ {"delegator", "validator_addr", "txhash",
                            "amount_atom"} : a[f] = b[f]
      /\ toLowerCase(a.delegator) = toLowerCase(b.delegator)
      /\ toLowerCase(a.validator_addr) = toLowerCase(b.validator_addr)
      /\ toLowerCase(a.txhash) = toLowerCase(b.txhash)
      /\ a.amount_atom.micro = b.amount_atom.micro

\* C11: two raw records that differ only in the letter case of an address,
\* in the letter case of the tx hash, or in amount digits below the sixth
\* decimal normalize to the same id.
C11_IdentityConvergence ==
  (BothNormalized /\ DifferOnlyInCaseOrNoise) =>
    normalized[1].id = normalized[2].id

IdentityOf(ev) ==
  << ev.chain_id, ev.txhash, ev.msg_index, ev.event_index, ev.type,
     ev.delegator, ev.validator_addr, toFixed6(ev.amount_atom), ev.height >>

\* C12: two normalized records have the same id exactly when they agree on
\* chain id, tx hash, message index, event index, type, delegator, validator
\* address, amount to six decimals and height, whatever their source,
\* timestamp, validator name and ingestion time.
C12_IdIsFunctionOfIdentity ==
  BothNormalized =>
    (IdentityOf(normalized[1]) = IdentityOf(normalized[2])
       <=> normalized[1].id = normalized[2].id)

\* -------------------------------------------------------------------- C13
RECURSIVE RowsAppendedTo(_, _)
RowsAppendedTo(p, k) ==
  IF k = 0 THEN 0
  ELSE (IF toAppendByPartition[k].p = p
        THEN Len(toAppendByPartition[k].rows) ELSE 0) + RowsAppendedTo(p, k - 1)

\* what partition p held when the run started
PreRun(p) ==
  SubSeq(ledger[p], 1, Len(ledger[p]) - RowsAppendedTo(p, appendIdx - 1))

TouchedPartitions ==
  { Month(IF quorumEvents[k].timestamp # NoTs
          THEN quorumEvents[k].timestamp ELSE nowIso) :
      k \in 1..Len(quorumEvents) }

AlreadyPresent ==
  { k \in 1..Len(quorumEvents) :
      \E p \in TouchedPartitions :
        \E j \in 1..Len(PreRun(p)) : PreRun(p)[j].id = quorumEvents[k].id }

\* C13: the statistics of a completed run satisfy
\* candidate_events = quorum_events + dropped_by_quorum and
\* quorum_events = skipped_existing + appended, and skipped_existing is the
\* number of accepted events whose id the touched partitions already held.
C13_StatsIdentities ==
  pc = "done" =>
    LET stats == stateFile.stats
    IN  /\ stats.candidate_events = Cardinality(Candidates)
        /\ stats.candidate_events =
             stats.quorum_events + stats.dropped_by_quorum
        /\ stats.quorum_events = stats.skipped_existing + stats.appended
        /\ stats.skipped_existing = Cardinality(AlreadyPresent)

C13_Witness ==
  /\ pc = "done"
  /\ stateFile.stats.dropped_by_quorum >= 1
  /\ stateFile.stats.skipped_existing >= 1

\* -------------------------------------------------------------------- C14
\* the checks of the report that are not 'ok'
NotOkChecks ==
  { <<"freshness", c>> : c \in { f \in FreshnessChecks :
                                   healthFile.checks[f] # "ok" } }
  \cup { <<"provider", name>> :
           name \in { n \in DOMAIN healthFile.checks.providers :
                        healthFile.checks.providers[n] # "ok" } }
  \cup (IF healthFile.checks.quorum # "ok" THEN { <<"quorum", "quorum">> }
        ELSE {})

\* C14: the overall status of the health report is 'ok' exactly when every
\* check is 'ok', 'degraded' exactly when one or two checks are not ok, and
\* 'critical' when three or more are not ok.
C14_HealthRollup ==
  healthFile.exists =>
    /\ healthFile.overall = "ok" <=> Cardinality(NotOkChecks) = 0
    /\ healthFile.overall = "degraded" <=> Cardinality(NotOkChecks) \in {1, 2}
    /\ Cardinality(NotOkChecks) >= 3 => healthFile.overall = "critical"

C14_Witness ==
  /\ healthFile.exists
  /\ healthFile.overall = "critical"
  /\ Cardinality(NotOkChecks) = 3
  /\ healthFile.checks.feed = "stale"

\* -------------------------------------------------------------------- C15
\* the report was written after the ingestion process of this tick ended
HealthAfterRun ==
  /\ pc \in {"done", "failed"}
  /\ healthFile.exists
  /\ healthFile.generated_at = nowIso

AllArtifactsFresh ==
  \A c \in FreshnessChecks : healthFile.checks[c] = "ok"

QuorumHealthOf(succeeded) ==
  IF succeeded >= RPC_QUORUM_MIN THEN "ok"
  ELSE IF succeeded >= 1 THEN "degraded"
  ELSE "critical"

\* C16: the status in source-status.json and the quorum check of the health
\* report are 'ok' when the providers that succeeded reach the configured
\* quorum, 'degraded' when at least one but fewer succeeded, and 'critical'
\* when none succeeded.
C16_QuorumHealth ==
  LET succeeded == Cardinality({ i \in ProviderIdx : ~Failed(i) })
  IN  /\ pc = "done" => sourceStatusFile.status = QuorumHealthOf(succeeded)
      /\ (pc = "done" /\ HealthAfterRun) =>
           healthFile.checks.quorum = QuorumHealthOf(succeeded)

\* -------------------------------------------------------------------- C17
\* the children spawned by the current repair process, in spawn order
StagesOfRun ==
  SelectSeq(stagesRun, LAMBDA c : c.run = repairRuns)

\* C17: a repair process runs WideIngest, Rebuild, Reconcile in this order,
\* starts a stage only after the stage before it exited with status 0,
\* starts no stage after a failed one and then ends Failed with exit code
\* 1, and ends Done only if all three stages exited with status 0.
C17_RepairStageOrder ==
  LET mine == StagesOfRun
  IN  /\ Len(mine) <= Len(Stages)
      /\ \A k \in 1..Len(mine) :
           /\ mine[k].stage = Stages[k]
           /\ k > 1 => mine[k - 1].status = 0
      /\ (\E k \in 1..Len(mine) : mine[k].status \notin {0, Running}) =>
           repairPc = "Failed" /\ repairExit = 1
      /\ repairPc = "Done" =>
           /\ Len(mine) = Len(Stages)
           /\ \A k \in 1..Len(mine) : mine[k].status = 0
           /\ repairExit = 0
      /\ repairPc = "Failed" =>
           /\ repairExit = 1
           /\ mine[Len(mine)].status \notin {0, Running}
      /\ repairPc \in { Stages[k] : k \in 1..Len(Stages) } =>
           /\ mine[Len(mine)].stage = repairPc
           /\ mine[Len(mine)].status = Running

C17_Witness ==
  /\ repairPc = "Failed"
  /\ Len(StagesOfRun) = 2
  /\ StagesOfRun[2].stage = "Rebuild"
  /\ repairRuns = 2
  /\ \E k \in 1..Len(stagesRun) :
       stagesRun[k].run = 1 /\ stagesRun[k].stage = "Reconcile"
                            /\ stagesRun[k].status = 0

\* -------------------------------------------------------------------- C18
Aggregates == {"hourly", "daily"}

\* C18: a rebuild that runs on the ledger and at the wall clock of the
\* rebuild before it writes the same hourly and daily aggregates: the same
\* buckets in the same order with the same amounts and counts.
C18_RebuildIdempotent ==
  [][ \A f \in Aggregates :
        ( /\ rebuildPc = f
          /\ rebuildPc' # "failed"
          /\ derived[f].exists
          /\ derived[f].generated_at.tick = rebuildNow )
        => /\ derived'[f].items = derived[f].items
           /\ derived'[f].total = derived[f].total ]_vars

C18_Witness ==
  /\ derived["whale"].exists
  /\ derived["whale"].generated_at.seq = 1
  /\ \A f \in Aggregates :
       /\ derived[f].exists
       /\ derived[f].generated_at.seq = 2
       /\ \E k \in 1..Len(derived[f].items) : derived[f].items[k].total_count = 2
  /\ Len(rebuildEvents) = 2

\* -------------------------------------------------------------------- C19
OwnOutputs == {"feed", "raw", "hourly", "daily", "whale"}

\* C19: the rebuild runs the pending-unbonding and the unbonding-flows
\* scripts only after it has written its own outputs, and if one of them
\* exits with a status other than 0 the rebuild fails with a non-zero exit.
C19_DependentDerivations ==
  /\ scriptsRun # << >> =>
       \A f \in OwnOutputs :
         /\ derived[f].exists
         /\ derived[f].generated_at.seq = rebuildRuns
  /\ \A k \in 1..Len(scriptsRun) :
       scriptsRun[k].status # 0 =>
         /\ k = Len(scriptsRun)
         /\ rebuildPc = "failed"
         /\ rebuildExit # 0
         /\ rebuildExit # -1
  /\ rebuildPc = "done" =>
       /\ rebuildExit = 0
       /\ rebuildEnv.RUN_PENDING =>
            \E k \in 1..Len(scriptsRun) :
              /\ scriptsRun[k].script = "scripts/fetch-pending-undelegations.mjs"
              /\ scriptsRun[k].status = 0
       /\ rebuildEnv.RUN_UNBONDING =>
            \E k \in 1..Len(scriptsRun) :
              /\ scriptsRun[k].script = "scripts/fetch-unbonding-flows.mjs"
              /\ scriptsRun[k].status = 0

C19_Witness ==
  /\ rebuildPc = "failed"
  /\ Len(scriptsRun) = 2
  /\ scriptsRun[1].status = 0
  /\ scriptsRun[2].script = "scripts/fetch-unbonding-flows.mjs"
  /\ scriptsRun[2].status # 0
  /\ rebuildExit = 1

\* -------------------------------------------------------------------- C20
\* the accepted events of partition p that the ledger does not hold yet
NewFor(p) ==
  { k \in 1..Len(quorumEvents) :
      /\ Month(IF quorumEvents[k].timestamp # NoTs
               THEN quorumEvents[k].timestamp ELSE nowIso) = p
      /\ \A q \in Partitions :
           \A j \in 1..Len(ledger[q]) : ledger[q][j].id # quorumEvents[k].id }

\* new is old followed by one complete batch of partition p
OneBatchAppended(p, old, new) ==
  /\ IsPrefix(old, new)
  /\ Len(new) - Len(old) = Cardinality(NewFor(p))
  /\ { new[j].id : j \in (Len(old) + 1)..Len(new) } =
       { quorumEvents[k].id : k \in NewFor(p) }

CompleteDocument(doc) ==
  /\ doc.exists
  /\ doc.fresh
  /\ DOMAIN doc \in { DOMAIN SourceStatusOf(<< >>, 0, 0, 0, << >>, 0),
                      {"exists", "fresh", "last_ingest_at", "cursors", "stats"} }

CompleteDerived(doc) ==
  /\ doc.exists
  /\ doc.generated_at = [tick |-> rebuildNow, seq |-> rebuildRuns]
  /\ doc.total = Len(doc.items)

C21_ConcurrentFetches ==
  \A i \in ProviderIdx, j \in ProviderIdx :
    (i # j /\ running = i /\ tasks[j].status = "pending") => CanSpawn(j)

\* C22: after every ingestion run the state document holds last ingest
\* time = the time of that run, next cursor = now minus the overlap window,
\* never later than the last ingest time when the overlap is >= 0, and the
\* full statistics of that run.
StateWritten == pc \in {"status", "done"}

CursorIsNowMinusOverlap ==
  /\ stateFile.cursors.since.from = nowIso
  /\ stateFile.cursors.since.hours + OVERLAP_HOURS \in Elapsed

\* the instant is not later than the start of the process at tick
NotLaterThan(instant, tick) ==
  instant.from < tick \/ (instant.from = tick /\ instant.hours <= 0)

C22_StateDocument ==
  StateWritten =>
    /\ stateFile.exists
    /\ stateFile.last_ingest_at = nowIso
    /\ CursorIsNowMinusOverlap
    /\ OVERLAP_HOURS >= 0 =>
         NotLaterThan(stateFile.cursors.since, stateFile.last_ingest_at)
    /\ stateFile.stats =
         StatsOf(providerRuns, dynamicQuorum, canonical, quorumEvents,
                 droppedByQuorum, skippedExisting, toAppendByPartition)

\* C23: each artifact's freshness check is 'missing' when its freshness
\* timestamp is absent or unparseable (no age), 'ok' when its age in minutes
\* is <= its staleness budget (30 for source status, feed and event
\* intelligence; 90 for pending-unbonding and unbonding-flows), and 'stale'
\* otherwise.
StalenessBudget ==
  [ source |-> 30, feed |-> 30, event_intelligence |-> 30,
    pending |-> 90, unbonding |-> 90 ]

C23_FreshnessChecks ==
  healthFile.exists =>
    \A c \in FreshnessChecks :
      LET mins == healthFile.freshness[c] IN
        healthFile.checks[c] =
          IF mins = NoAge THEN "missing"
          ELSE IF mins <= StalenessBudget[c] THEN "ok"
          ELSE "stale"

\* a report in which one artifact has no age, one is exactly at its budget
\* of 30, one is past 30 but within 90, and one is past 90
C23_Witness ==
  /\ healthFile.exists
  /\ healthFile.freshness["source"] = 30 /\ healthFile.checks["source"] = "ok"
  /\ healthFile.freshness["feed"] = 60 /\ healthFile.checks["feed"] = "stale"
  /\ healthFile.freshness["pending"] = 60 /\ healthFile.checks["pending"] = "ok"
  /\ healthFile.freshness["unbonding"] = 91
  /\ healthFile.checks["unbonding"] = "stale"
  /\ healthFile.freshness["event_intelligence"] = NoAge
  /\ healthFile.checks["event_intelligence"] = "missing"

\* C24: a malformed raw record (amount non-finite or <= 0, or timestamp
\* absent or unparseable together with no height) is dropped without
\* throwing: the provider that returned it is still recorded as ok and its
\* other records are still normalized and reconciled.
Malformed(ev) ==
  \/ ~isFinite(ev.amount_atom)
  \/ ev.amount_atom <= 0
  \/ (ev.timestamp \in {NoTs, BadTs} /\ ev.height = 0)

\* the ids of the records of provider i that are not malformed and have a
\* staking type
OtherRecords(i) ==
  { fetchResult[i].items[k].id : k \in
      { k \in 1..Len(fetchResult[i].items) :
          /\ ~Malformed(fetchResult[i].items[k])
          /\ normalizeType(fetchResult[i].items[k].type) # "null" } }

C24_MalformedRecordDropped ==
  Reconciled =>
    \A i \in ProviderIdx :
      ( /\ fetchResult[i].kind = "ok"
        /\ \E k \in 1..Len(fetchResult[i].items) :
             Malformed(fetchResult[i].items[k]) )
      => /\ providerRuns[i].ok
         /\ \A k \in 1..Len(providerRuns[i].events) :
              ~Malformed(providerRuns[i].events[k])
         /\ ReportedBy(i) = OtherRecords(i)
         /\ OtherRecords(i) \subseteq { canonical[k].id : k \in 1..Len(canonical) }

\* C28: every event persisted in the ledger has amount > 0, type in
\* {delegate, undelegate}, and a non-null timestamp or a non-zero height.
C28_PersistedEventsValid ==
  \A p \in Partitions :
    \A k \in 1..Len(ledger[p]) :
      LET row == ledger[p][k] IN
        /\ isFinite(row.amount_atom)
        /\ row.amount_atom > 0
        /\ row.type \in {"delegate", "undelegate"}
        /\ (row.timestamp # NoTs \/ row.height # 0)
        /\ row.timestamp # BadTs

\* a run in which a provider returned a record that must not be persisted
\* next to a record that was appended
C28_Witness ==
  /\ pc = "done"
  /\ fetchResult[1].kind = "ok"
  /\ \E k \in 1..Len(fetchResult[1].items) :
       LET ev == fetchResult[1].items[k] IN
         Malformed(ev) \/ normalizeType(ev.type) = "null"
  /\ stateFile.stats.appended >= 1

\* C25: every network call carries an explicit timeout, so that every
\* stage that calls the network ends its calls even if the endpoint never
\* responds: a call in flight has a timeout and has not outlived it.
C25_EveryCallHasTimeout ==
  call # NoCall =>
    /\ call.timeoutMs # NoTimeout
    /\ waited * TickMs <= call.timeoutMs

\* C26: only the ledger-writer step of the ingestion modifies ledger
\* partitions: the rebuild, the health reconciliation and the per-provider
\* fetch tasks leave every partition unchanged.
C26_OnlyWriterModifiesLedger ==
  [][ ledger' # ledger =>
        /\ pc = "append" /\ pc' = "append"
        /\ appendIdx' = appendIdx + 1
        /\ tasks' = tasks
        /\ UNCHANGED << rebuild, healthFile >> ]_vars

\* a ledger with rows, read by a rebuild that has finished and present
\* while the health reconciler ran
C26_Witness ==
  /\ \E p \in Partitions : Len(ledger[p]) >= 1
  /\ rebuildPc = "done"
  /\ derived["raw"].exists /\ derived["raw"].total >= 1
  /\ healthFile.exists

\* C27: every row stored in a partition has a timestamp whose UTC
\* year-month is the key of the partition.
C27_RowInMonthOfTimestamp ==
  \A p \in Partitions :
    \A k \in 1..Len(ledger[p]) :
      /\ ledger[p][k].timestamp # NoTs
      /\ Month(ledger[p][k].timestamp) = p

\* C29: whenever an ingestion run completes successfully, every event
\* accepted by quorum in that run is present in the ledger afterwards,
\* appended by this run or already there.
LedgerIds ==
  UNION { { ledger[p][k].id : k \in 1..Len(ledger[p]) } : p \in Partitions }

C29_AcceptedEventsInLedger ==
  (pc = "done" /\ exitCode = 0) => AcceptedIds \subseteq LedgerIds

\* a later run, in which every provider answered, has completed and has
\* appended the event it accepted to a ledger that held another event
C29_Witness ==
  /\ pc = "done"
  /\ exitCode = 0
  /\ stateFile.stats.providers_ok = Len(RPC_PROVIDERS)
  /\ stateFile.stats.quorum_events = 1
  /\ stateFile.stats.appended = 1
  /\ Cardinality(LedgerIds) = 2

\* C30: for every candidate event id, the supporter count used for the
\* quorum decision equals the number of configured endpoints that returned
\* ok in this run and reported that id, and never exceeds providers_ok.
SupportingEndpoints(id) ==
  { i \in ProviderIdx : providerRuns[i].ok /\ id \in ReportedBy(i) }

C30_SupporterCount ==
  Reconciled =>
    \A k \in 1..Len(canonical) :
      LET supporters == Cardinality(evidence[canonical[k].id]) IN
        /\ supporters = Cardinality(SupportingEndpoints(canonical[k].id))
        /\ supporters <= Len(okRunsOf(providerRuns))

\* -------------------------------------------------------------------- C31
Range(s) == { s[k] : k \in DOMAIN s }

\* the feed of the rebuild process that is running or has ended
FeedWritten ==
  /\ rebuildRuns >= 1
  /\ derived["feed"].exists
  /\ derived["feed"].generated_at.seq = rebuildRuns

\* the retained events that fewer than keep retained events precede in the
\* order by timestamp, then height, descending
MostRecent(keep) ==
  { e \in Range(rebuildEvents) :
      Cardinality({ d \in Range(rebuildEvents) : NewerThan(d, e) }) < keep }

\* the retained large-amount events whose timestamp is in the whale window
LargeInWindow ==
  { e \in Range(rebuildEvents) :
      /\ e.amount_atom >= WHALE_FEED_MIN
      /\ e.timestamp # NoTs
      /\ e.timestamp >= DaysBefore(rebuildNow, WHALE_FEED_DAYS) }

\* C31: the rebuilt feed holds exactly the FEED_KEEP most recent retained
\* events and every large-amount event whose timestamp is in the whale
\* window, each once, most recent first; it has at most FEED_KEEP items
\* more than there are large-amount events in the window.
C31_FeedContents ==
  FeedWritten =>
    LET items == derived["feed"].items IN
      /\ Range(items) =
           { normalizeFeedItem(e) : e \in MostRecent(rebuildEnv.FEED_KEEP) \cup LargeInWindow }
      /\ \A j \in 1..Len(items), k \in 1..Len(items) : items[j] = items[k] => j = k
      /\ \A j \in 1..Len(items), k \in 1..Len(items) :
           j < k => ~NewerThan(items[k], items[j])
      /\ Len(items) <= rebuildEnv.FEED_KEEP + Cardinality(LargeInWindow)

\* -------------------------------------------------------------------- C32
\* C32: in every bucket of the hourly and of the daily aggregate the net
\* amount is the delegate amount minus the undelegate amount and the total
\* count is the sum of the two counts, and the buckets stand in ascending
\* order of their keys, no key twice.
C32_BucketIdentities ==
  \A f \in Aggregates :
    derived[f].exists =>
      LET items == derived[f].items IN
        /\ \A k \in 1..Len(items) :
             /\ items[k].net_atom = items[k].delegate_atom - items[k].undelegate_atom
             /\ items[k].total_count =
                  items[k].delegates_count + items[k].undelegates_count
        /\ \A j \in 1..Len(items), k \in 1..Len(items) :
             j < k => items[j].key.at < items[k].key.at

\* both aggregates are written and a daily bucket holds a delegation and a
\* larger undelegation
C32_Witness ==
  /\ derived["daily"].exists
  /\ derived["hourly"].exists
  /\ \E k \in 1..Len(derived["daily"].items) :
       /\ derived["daily"].items[k].delegates_count = 1
       /\ derived["daily"].items[k].undelegates_count = 1
       /\ derived["daily"].items[k].net_atom < 0

\* -------------------------------------------------------------------- C33
\* the rows of partition p from row k on that no later row of the ledger
\* repeats
RECURSIVE LastRowsFrom(_, _, _)
LastRowsFrom(files, p, k) ==
  IF k > Len(files[p]) THEN << >>
  ELSE IF \E q \in DOMAIN files : \E j \in 1..Len(files[q]) :
            /\ files[q][j].id = files[p][k].id
            /\ q > p \/ (q = p /\ j > k)
       THEN LastRowsFrom(files, p, k + 1)
       ELSE << files[p][k] >> \o LastRowsFrom(files, p, k + 1)

\* the ledger with one row kept of every id, the one written last
OneRowPerId(files) == [p \in DOMAIN files |-> LastRowsFrom(files, p, 1)]

RebuiltFromLedger(f) ==
  /\ rebuildRuns >= 1
  /\ derived[f].exists
  /\ derived[f].generated_at.seq = rebuildRuns

StampedEvents ==
  { e \in Range(loadLedgerEvents(ledger)) : e.timestamp # NoTs }

\* C37: the daily aggregate covers every event of the ledger that has a
\* timestamp, whatever its age: the bucket of a day counts the events of
\* that day, and every day of an event has its bucket.
C37_DailyCoversEveryEvent ==
  RebuiltFromLedger("daily") =>
    LET items == derived["daily"].items IN
      /\ \A e \in StampedEvents :
           \E k \in 1..Len(items) : items[k].key = toIsoDay(e.timestamp)
      /\ \A k \in 1..Len(items) :
           items[k].total_count =
             Cardinality({ e \in StampedEvents : toIsoDay(e.timestamp) = items[k].key })

\* -------------------------------------------------------------------- C34
\* what the run records for provider i, from the endpoint of i and from
\* what the fetcher of i did, and from nothing else
OwnRecord(i) ==
  LET own == fetchResult[i]
      name == providerName(RPC_PROVIDERS[i])
  IN  CASE own.kind = "exit" ->
             [provider |-> name, ok |-> FALSE, error |-> "exit", events |-> <<>>]
        [] own.kind = "throw" ->
             [provider |-> name, ok |-> FALSE, error |-> "thrown", events |-> <<>>]
        [] own.kind = "ok" /\ \E k \in 1..Len(own.items) : normalizeThrows(own.items[k]) ->
             [provider |-> name, ok |-> FALSE, error |-> "Invalid time value",
              events |-> <<>>]
        [] OTHER ->
             [provider |-> name, ok |-> TRUE, error |-> "null",
              events |-> NormalizedEvents(own.items, name)]

\* C34: the result a run records for a provider (ok, error, normalized
\* events) is determined by the responses of that provider alone: whatever
\* the other providers return, and whether they fail, it is the same.
C34_ProviderResultIsOwn ==
  /\ \A i \in ProviderIdx :
       tasks[i].status = "fulfilled" => tasks[i].value = OwnRecord(i)
  /\ Reconciled => \A i \in ProviderIdx : providerRuns[i] = OwnRecord(i)

\* the first provider returned an event, the second another event, and the
\* fetcher of the third failed
C34_Witness ==
  /\ Reconciled
  /\ providerRuns[1].ok /\ Len(providerRuns[1].events) = 1
  /\ providerRuns[2].ok /\ Len(providerRuns[2].events) = 1
  /\ providerRuns[1].events[1].id # providerRuns[2].events[1].id
  /\ ~providerRuns[3].ok

\* -------------------------------------------------------------------- C35
\* the step appended the rows of one batch, in the order of the batch
AppendedBatch(old, new, batches) ==
  \E k \in 1..Len(batches) :
    new = old \o SortByTimestamp(batches[k].rows)

\* C35: when two ingestion processes overlap on one ledger, under every
\* interleaving of their reads and appends, every row a partition holds
\* stays at its place with its content and no partition loses a row: a
\* step leaves a partition as it was or puts a batch of one of the two
\* processes behind it.
C35_OverlapKeepsRows ==
  [][ \A p \in Partitions :
        /\ Len(ledger'[p]) >= Len(ledger[p])
        /\ \A k \in 1..Len(ledger[p]) : ledger'[p][k] = ledger[p][k]
        /\ \/ ledger'[p] = ledger[p]
           \/ AppendedBatch(ledger[p], ledger'[p], toAppendByPartition)
           \/ AppendedBatch(ledger[p], ledger'[p], overlapToAppend) ]_vars

\* both processes read a partition before either appended to it, and both
\* appended the same event behind a row an earlier process had written
C35_Witness ==
  /\ pc = "done"
  /\ overlapPc = "done"
  /\ \E p \in Partitions :
       /\ Len(ledger[p]) = 3
       /\ ledger[p][2].id = ledger[p][3].id
       /\ ledger[p][1].id # ledger[p][2].id

\* -------------------------------------------------------------------- C36
\* the document was written by the process that is running or has ended
OfThisRun(doc) == doc.exists /\ doc.fresh

AppendsCompleted ==
  /\ pc \in {"append", "status"}
  /\ appendIdx > Len(toAppendByPartition)

\* C36: a run writes the state document and the source-status document
\* only after all its partition appends have completed, the state document
\* first; if an append fails, neither document is written, both are as
\* they were when the run started, and the run exits non-zero.
C36_DocumentsAfterAppends ==
  [][ /\ (stateFile' # stateFile /\ OfThisRun(stateFile')) =>
            /\ AppendsCompleted
            /\ ~OfThisRun(sourceStatusFile')
            /\ ledger' = ledger
      /\ (sourceStatusFile' # sourceStatusFile /\ OfThisRun(sourceStatusFile')) =>
            /\ AppendsCompleted
            /\ OfThisRun(stateFile)
            /\ stateFile' = stateFile
            /\ ledger' = ledger
      /\ ledger' # ledger =>
            ~OfThisRun(stateFile) /\ ~OfThisRun(sourceStatusFile)
      /\ pc' = "failed" =>
            /\ UNCHANGED << stateFile, sourceStatusFile >>
            /\ ~OfThisRun(stateFile') /\ ~OfThisRun(sourceStatusFile')
            /\ exitCode' # 0 /\ exitCode' # -1 ]_vars

\* the second of two appends of a run failed, and the documents of an
\* earlier run are still on disk
C36_Witness ==
  /\ pc = "failed"
  /\ Len(toAppendByPartition) = 2
  /\ appendIdx = 2
  /\ Len(ledger[toAppendByPartition[1].p]) >= 1
  /\ stateFile = OldDocument
  /\ sourceStatusFile = OldDocument
  /\ exitCode = 1

====
